---- MODULE Spec2Model ----
(***************************************************************************)
(* Gossip validation and aggregation core of the beacon node.              *)
(*                                                                         *)
(*   SpecGossip   validate_blob_sidecar_for_gossip, one step per check     *)
(*                (beacon_chain/src/blob_verification.rs)                  *)
(*   SpecPair     concurrent validate_blob_sidecar_for_gossip calls        *)
(*   SpecAgg      AttestationAggregator::process_free_attestation          *)
(*                (beacon_chain/src/attestation_aggregator.rs)             *)
(*   SpecAggTasks concurrent process_free_attestation calls                *)
(*   SpecAggRead  process_free_attestation and get_attestations_for_state  *)
(*   SpecEarlyChecks  the checks of the validator up to the proposer       *)
(*   SpecWrapper  BlockWrapper / AvailableBlock                            *)
(*                (beacon_chain/src/blob_verification.rs)                  *)
(*   SpecPromote  BlockWrapper with IntoAvailableBlock                     *)
(*   SpecLocks    validate_blob_sidecar_for_gossip, one step per lock      *)
(*                taken or left while the proposer is resolved             *)
(*   SpecVerify   verify_data_availability                                 *)
(*   SpecKzg      the KZG adapter (beacon_chain/src/kzg_utils.rs)          *)
(*   SpecEngine   the engine State notifier                                *)
(*                (execution_layer/src/engines.rs)                         *)
(***************************************************************************)
EXTENDS Integers, Sequences, FiniteSets, Bags, TLC

(* Option<T> as a set with at most one element. *)
None == {}
Some(v) == {v}
IsSome(o) == o # {}
Unwrap(o) == CHOOSE v \in o : TRUE

(***************************************************************************)
(* Bounds of the model.                                                    *)
(***************************************************************************)
MaxSlot == 2
MaxBlobIndex == 2
CommitteeSize == 4
MaxWrappers == 2
MaxUpdates == 3
MaxWatchers == 2

(***************************************************************************)
(* The chain seen by the blob gossip validator.                            *)
(***************************************************************************)
SlotsPerEpoch == 2
TicksPerSlot == 2
MAXIMUM_GOSSIP_CLOCK_DISPARITY == 1

Slots == 0..MaxSlot
BlobIndexes == 1..MaxBlobIndex
BlockRoots == {"r1"}
ParentRoots == {"p1", "p2"}
ProposerIndexes == 0..1
Signers == 0..1
MaxTime == TicksPerSlot * (MaxSlot + 1) - 1
MaxFinalizedEpoch == MaxSlot \div SlotsPerEpoch

SignedBlobSidecars ==
    [slot : Slots, index : BlobIndexes, block_root : BlockRoots,
     block_parent_root : ParentRoots, proposer_index : ProposerIndexes,
     signature : Signers]

VARIABLES
    slot_clock,                 \* None before genesis, else Some(time in ticks)
    finalized_epoch,            \* chain.head().finalized_checkpoint().epoch
    fork_choice,                \* block roots in the fork-choice view
    early_attester_cache,       \* block roots in the early-attester cache
    pubkey_cache_writer,        \* TRUE while a writer holds validator_pubkey_cache
    data_availability_checker,  \* None, or Some(block root -> blob indexes seen)
    put_log,                    \* per task: what put_blob_temp returned to this call
    call,                       \* per task: the running validate_blob_sidecar_for_gossip
    gossip_peers,               \* who delivers sidecars: "any" peer, or the "proposer" only
    beacon_proposer_cache_held, \* TRUE while another task holds the proposer cache mutex
    fork_choice_writer          \* TRUE while a writer holds the fork-choice lock

VARIABLES
    store,                      \* AttestationAggregator.store
    last,                       \* what the last process_free_attestation returned
    attesters,                  \* who sends free attestations: "any" peer, or the "committee"
    returned,                   \* the last get_attestations_for_state call: its state and list
    agg_call,                   \* per task: the running process_free_attestation
    self_borrow                 \* the task holding &mut self of the aggregator, if any

gossipLockVars == <<gossip_peers, beacon_proposer_cache_held, fork_choice_writer>>
gossipVars == <<slot_clock, finalized_epoch, fork_choice, early_attester_cache,
                pubkey_cache_writer, data_availability_checker, put_log, call,
                gossipLockVars>>
VARIABLES
    wrappers,                   \* the BlockWrapper values the node holds, by place
    available_blocks,           \* the AvailableBlock values the node holds
    arcs,                       \* the blocks the node holds an Arc of
    reached_available,          \* the block roots that some wrapper held as Available
    wrapper_op                  \* the last operation on the wrappers

VARIABLES
    verify_call                 \* the running verify_data_availability

VARIABLES
    kzg_call                    \* the last call of a kzg_utils function and its repetition

VARIABLES
    engine                      \* the State of an engine and the watchers of its notifier

aggVars == <<store, last, attesters, returned, agg_call, self_borrow>>
wrapperVars == <<wrappers, available_blocks, arcs, reached_available, wrapper_op>>
verifyVars == <<verify_call>>
kzgVars == <<kzg_call>>
engineVars == <<engine>>
nonGossipVars == <<aggVars, wrapperVars, verifyVars, kzgVars, engineVars>>
nonAggVars == <<gossipVars, wrapperVars, verifyVars, kzgVars, engineVars>>
nonWrapperVars == <<gossipVars, aggVars, verifyVars, kzgVars, engineVars>>
nonVerifyVars == <<gossipVars, aggVars, wrapperVars, kzgVars, engineVars>>
nonKzgVars == <<gossipVars, aggVars, wrapperVars, verifyVars, engineVars>>
nonEngineVars == <<gossipVars, aggVars, wrapperVars, verifyVars, kzgVars>>

vars == <<gossipVars, aggVars, wrapperVars, verifyVars, kzgVars, engineVars>>

Err(e) == [kind |-> "Err", error |-> e]
Ok(v) == [kind |-> "Ok", value |-> v]
Panic == [kind |-> "Panic"]

(***************************************************************************)
(* The attestation aggregator.                                             *)
(***************************************************************************)
PHASE_0_CUSTODY_BIT == FALSE

(* The committees of the current epoch, in the order the state lists them: *)
(* the committee of slot 10 and shard 2 holds validators 0..CommitteeSize-1, *)
(* validator v at position (v + 1) % CommitteeSize; validator CommitteeSize *)
(* alone forms the committee of slot 11 and shard 3; validator              *)
(* CommitteeSize + 1 is in no committee.                                    *)
CrosslinkCommittees ==
    << [slot |-> 10, shard |-> 2,
        committee |-> [k \in 1..CommitteeSize |-> (k + CommitteeSize - 2) % CommitteeSize]],
       [slot |-> 11, shard |-> 3, committee |-> <<CommitteeSize>>] >>

ValidatorIndexes == 0..(CommitteeSize + 1)
BeaconBlockRoots == {"b1", "b2"}

(* state.validator_registry *)
validator_registry == [v \in ValidatorIndexes |-> [pubkey |-> v]]

(* The caller-supplied state: what its committee cache answers. *)
BeaconStates ==
    {[epoch_cache |-> c] :
        c \in {"Built", "EpochCacheUninitialized", "EpochOutOfBounds",
               "ShardOutOfBounds", "InsufficientValidators"}}

(* Every slot and shard with the block root b1, and the data of slot 10   *)
(* and shard 2 with the block root b2 as well.                             *)
AttestationDatas ==
    {d \in [slot : {10, 11}, shard : {2, 3}, beacon_block_root : BeaconBlockRoots] :
        d.beacon_block_root = "b1" \/ (d.slot = 10 /\ d.shard = 2)}

(* AttestationData::signable_message: the hash of the data and the custody *)
(* bit, which no two inputs share.                                         *)
signable_message(data, custody_bit) == <<data, custody_bit>>

(* A BLS signature: the key that made it and the message it is over. *)
Sign(key, message) == [signer |-> key, message |-> message]

(* Signature::verify(message, domain, pubkey) *)
verify(signature, message, pubkey) ==
    signature.signer = pubkey /\ signature.message = message

(* A peer sends the signature of the validator, of another validator, or   *)
(* of the validator over other data.                                       *)
OtherRoot(data) ==
    [data EXCEPT !.beacon_block_root = IF @ = "b1" THEN "b2" ELSE "b1"]

FreeAttestations ==
    UNION {
        {[validator_index |-> v, data |-> d, signature |-> sig] :
            sig \in {Sign(v, signable_message(d, PHASE_0_CUSTODY_BIT)),
                     Sign((v + 1) % CommitteeSize,
                          signable_message(d, PHASE_0_CUSTODY_BIT)),
                     Sign(v, signable_message(OtherRoot(d), PHASE_0_CUSTODY_BIT))}} :
        v \in ValidatorIndexes, d \in AttestationDatas}

(* Bitfield: a growable vector of bits, position 0 first. *)
Bitfield_new == <<>>

Bitfield_get(bitfield, i) ==
    IF i < Len(bitfield) THEN Some(bitfield[i + 1]) ELSE None

Bitfield_set(bitfield, i, value) ==
    LET n == IF Len(bitfield) > i + 1 THEN Len(bitfield) ELSE i + 1 IN
    [k \in 1..n |-> IF k = i + 1 THEN value
                    ELSE IF k <= Len(bitfield) THEN bitfield[k] ELSE FALSE]

unwrap_or(o, default) == IF o = None THEN default ELSE Unwrap(o)

(* AggregateSignature: the signatures folded into it, with multiplicity. *)
AggregateSignature_new == EmptyBag

AggregateSignature_add(aggregate, signature) ==
    aggregate (+) SetToBag({signature})

(* position(|&i| i == validator_index) in a committee, counted from 0 *)
position(committee, validator_index) ==
    IF \E k \in 1..Len(committee) : committee[k] = validator_index
    THEN Some((CHOOSE k \in 1..Len(committee) :
                  /\ committee[k] = validator_index
                  /\ \A j \in 1..(k - 1) : committee[j] # validator_index) - 1)
    ELSE None

(* The loop over the committees: the last committee holding the validator  *)
(* decides.                                                                *)
RECURSIVE duties_from(_, _, _)
duties_from(n, validator_index, result) ==
    IF n > Len(CrosslinkCommittees) THEN result
    ELSE LET c == CrosslinkCommittees[n]
             p == position(c.committee, validator_index)
         IN duties_from(n + 1, validator_index,
                        IF p # None
                        THEN Some([slot |-> c.slot, shard |-> c.shard,
                                   committee_index |-> Unwrap(p)])
                        ELSE result)

attestation_slot_and_shard_for_validator(cached_state, validator_index) ==
    IF cached_state.epoch_cache # "Built"
    THEN Err(cached_state.epoch_cache)
    ELSE Ok(duties_from(1, validator_index, None))

EmptyStore == [k \in {} |-> None]

store_get(st, key) == IF key \in DOMAIN st THEN Some(st[key]) ELSE None

(* store_insert into a map that forgets the other entries. *)
store_insert_fresh(st, key, value) ==
    [k \in {key} |-> value]

store_insert(st, key, value) ==
    [k \in DOMAIN st \cup {key} |-> IF k = key THEN value ELSE st[k]]

valid_outcome(st, message) ==
    [store |-> st, result |-> Ok([valid |-> TRUE, message |-> message])]

invalid_outcome(st, message) ==
    [store |-> st, result |-> Ok([valid |-> FALSE, message |-> message])]

(* aggregate_attestation keeping only the new signature. *)
aggregate_attestation_replace(existing_attestation, signature, committee_index) ==
    IF unwrap_or(Bitfield_get(existing_attestation.aggregation_bitfield,
                              committee_index), FALSE)
    THEN None
    ELSE Some([existing_attestation EXCEPT
                  !.aggregation_bitfield = Bitfield_set(@, committee_index, TRUE),
                  !.aggregate_signature =
                      AggregateSignature_add(AggregateSignature_new, signature)])

(* aggregate_attestation setting the bit without folding the signature. *)
aggregate_attestation_noFold(existing_attestation, signature, committee_index) ==
    IF unwrap_or(Bitfield_get(existing_attestation.aggregation_bitfield,
                              committee_index), FALSE)
    THEN None
    ELSE Some([existing_attestation EXCEPT
                  !.aggregation_bitfield = Bitfield_set(@, committee_index, TRUE)])

(* aggregate_attestation without the already_signed test. *)
aggregate_attestation_always(existing_attestation, signature, committee_index) ==
    Some([existing_attestation EXCEPT
             !.aggregation_bitfield = Bitfield_set(@, committee_index, TRUE),
             !.aggregate_signature = AggregateSignature_add(@, signature)])

(* aggregate_attestation: None when the bit is set already. *)
aggregate_attestation(existing_attestation, signature, committee_index) ==
    LET already_signed ==
            unwrap_or(Bitfield_get(existing_attestation.aggregation_bitfield,
                                   committee_index), FALSE)
    IN
    IF already_signed THEN None
    ELSE Some([existing_attestation EXCEPT
                  !.aggregation_bitfield = Bitfield_set(@, committee_index, TRUE),
                  !.aggregate_signature = AggregateSignature_add(@, signature)])

(* check_duties testing the shard before the slot. *)
check_duties_shardFirst(free_attestation, duties) ==
    IF free_attestation.data.shard # duties.shard THEN Some("BadShard")
    ELSE IF free_attestation.data.slot # duties.slot THEN Some("BadSlot")
    ELSE None

(* The slot and the shard of the data against the duty. *)
check_duties(free_attestation, duties) ==
    IF free_attestation.data.slot # duties.slot THEN Some("BadSlot")
    ELSE IF free_attestation.data.shard # duties.shard THEN Some("BadShard")
    ELSE None

(* signature_verifies accepting a signature of any registered key. *)
signature_verifies_anyKey(free_attestation, signable, validator_record) ==
    \E v \in DOMAIN validator_registry :
        verify(free_attestation.signature, signable, validator_registry[v].pubkey)

(* free_attestation.signature.verify(signable_message, domain, pubkey) *)
signature_verifies(free_attestation, signable, validator_record) ==
    verify(free_attestation.signature, signable, validator_record.pubkey)

(* new_attestation setting the bit of the validator index. *)
new_attestation_validatorBit(free_attestation, committee_index) ==
    [data |-> free_attestation.data,
     aggregation_bitfield |->
         Bitfield_set(Bitfield_new, free_attestation.validator_index, TRUE),
     custody_bitfield |-> Bitfield_new,
     aggregate_signature |->
         AggregateSignature_add(AggregateSignature_new, free_attestation.signature)]

(* new_attestation setting the custody bit of the member as well. *)
new_attestation_custody(free_attestation, committee_index) ==
    [data |-> free_attestation.data,
     aggregation_bitfield |-> Bitfield_set(Bitfield_new, committee_index, TRUE),
     custody_bitfield |-> Bitfield_set(Bitfield_new, committee_index, TRUE),
     aggregate_signature |->
         AggregateSignature_add(AggregateSignature_new, free_attestation.signature)]

(* new_attestation storing the data under another block root. *)
new_attestation_otherData(free_attestation, committee_index) ==
    [data |-> OtherRoot(free_attestation.data),
     aggregation_bitfield |-> Bitfield_set(Bitfield_new, committee_index, TRUE),
     custody_bitfield |-> Bitfield_new,
     aggregate_signature |->
         AggregateSignature_add(AggregateSignature_new, free_attestation.signature)]

(* The attestation created from the first free attestation of its data. *)
new_attestation(free_attestation, committee_index) ==
    [data |-> free_attestation.data,
     aggregation_bitfield |-> Bitfield_set(Bitfield_new, committee_index, TRUE),
     custody_bitfield |-> Bitfield_new,
     aggregate_signature |->
         AggregateSignature_add(AggregateSignature_new, free_attestation.signature)]

(* match_duties returning every error of the resolver to the caller. *)
match_duties_allErrors(attestation_duties) ==
    IF attestation_duties.kind = "Err"
    THEN Some(attestation_duties)
    ELSE IF attestation_duties.value = None
    THEN Some(Ok([valid |-> FALSE, message |-> "BadValidatorIndex"]))
    ELSE None

(* match_duties answering TooOld for an unbuilt cache. *)
match_duties_noPanic(attestation_duties) ==
    IF attestation_duties \in {Err("EpochCacheUninitialized"), Err("EpochOutOfBounds")}
    THEN Some(Ok([valid |-> FALSE, message |-> "TooOld"]))
    ELSE IF attestation_duties = Err("ShardOutOfBounds")
    THEN Some(Ok([valid |-> FALSE, message |-> "BadShard"]))
    ELSE IF attestation_duties.kind = "Err"
    THEN Some(attestation_duties)
    ELSE IF attestation_duties.value = None
    THEN Some(Ok([valid |-> FALSE, message |-> "BadValidatorIndex"]))
    ELSE None

(* The match on what the resolver answered: what the call returns at once, *)
(* None when a duty was resolved.                                          *)
match_duties(attestation_duties) ==
    IF attestation_duties = Err("EpochCacheUninitialized")
    THEN Some(Panic)
    ELSE IF attestation_duties = Err("EpochOutOfBounds")
    THEN Some(Ok([valid |-> FALSE, message |-> "TooOld"]))
    ELSE IF attestation_duties = Err("ShardOutOfBounds")
    THEN Some(Ok([valid |-> FALSE, message |-> "BadShard"]))
    ELSE IF attestation_duties.kind = "Err"
    THEN Some(attestation_duties)
    ELSE IF attestation_duties.value = None
    THEN Some(Ok([valid |-> FALSE, message |-> "BadValidatorIndex"]))
    ELSE None

(* process_free_attestation on the store st: the store afterwards and the  *)
(* value returned.                                                         *)
process_free_attestation(st, cached_state, free_attestation) ==
    LET attestation_duties ==
            attestation_slot_and_shard_for_validator(
                cached_state, free_attestation.validator_index)
    IN
    IF match_duties(attestation_duties) # None
    THEN [store |-> st, result |-> Unwrap(match_duties(attestation_duties))]
    ELSE
    LET duties == Unwrap(attestation_duties.value)
        committee_index == duties.committee_index
        signable == signable_message(free_attestation.data, PHASE_0_CUSTODY_BIT)
    IN
    IF check_duties(free_attestation, duties) # None
    THEN invalid_outcome(st, Unwrap(check_duties(free_attestation, duties)))
    ELSE IF free_attestation.validator_index \notin DOMAIN validator_registry
    THEN invalid_outcome(st, "BadValidatorIndex")
    ELSE IF ~signature_verifies(free_attestation, signable,
                                validator_registry[free_attestation.validator_index])
    THEN invalid_outcome(st, "BadSignature")
    ELSE IF store_get(st, signable) # None
    THEN LET updated == aggregate_attestation(Unwrap(store_get(st, signable)),
                                              free_attestation.signature,
                                              committee_index)
         IN IF updated # None
            THEN valid_outcome(store_insert(st, signable, Unwrap(updated)),
                               "Aggregated")
            ELSE valid_outcome(st, "AggregationNotRequired")
    ELSE valid_outcome(store_insert(st, signable,
                                    new_attestation(free_attestation, committee_index)),
                       "NewAttestationCreated")

NoCall == None

(* The calls made: every free attestation with a state whose cache is     *)
(* built; a state whose cache fails answers before the attestation is      *)
(* read, so one free attestation stands for all with it.                   *)
ProcessCalls ==
    {c \in BeaconStates \X FreeAttestations :
        \/ c[1].epoch_cache = "Built"
        \/ c[2] = [validator_index |-> 0,
                   data |-> [slot |-> 10, shard |-> 2, beacon_block_root |-> "b1"],
                   signature |-> Sign(0, signable_message(
                       [slot |-> 10, shard |-> 2, beacon_block_root |-> "b1"],
                       PHASE_0_CUSTODY_BIT))]}

(* The calls made with the free attestations of the committee members      *)
(* alone: validators 0 and 1 attest to either block root at slot 10, the   *)
(* validator of slot 11 attests there.                                     *)
CommitteeCalls ==
    {c \in ProcessCalls :
        /\ c[1].epoch_cache = "Built"
        /\ c[2].signature =
              Sign(c[2].validator_index,
                   signable_message(c[2].data, PHASE_0_CUSTODY_BIT))
        /\ \/ c[2].validator_index \in {0, 1} /\ c[2].data.slot = 10 /\ c[2].data.shard = 2
           \/ /\ c[2].validator_index = CommitteeSize
              /\ c[2].data.slot = 11 /\ c[2].data.shard = 3}

process_calls(from) == IF from = "any" THEN ProcessCalls ELSE CommitteeCalls

(* A task hands a free attestation to the aggregator; a panic ends the     *)
(* process.                                                                *)
ProcessFreeAttestation ==
    /\ last # Some(Panic)
    /\ \E c \in process_calls(attesters) :
          LET r == process_free_attestation(store, c[1], c[2]) IN
          /\ store' = r.store
          /\ last' = Some(r.result)
    /\ UNCHANGED <<attesters, returned, agg_call, self_borrow>>
    /\ UNCHANGED nonAggVars

(***************************************************************************)
(* get_attestations_for_state.                                             *)
(***************************************************************************)
(* The states block production asks with: at slot 11 or 12, with nothing   *)
(* pending or with an attestation to the block b2 at slot 10 pending.      *)
ProductionStates ==
    [slot : {11, 12},
     latest_attestations :
         {<<>>, <<[data |-> [slot |-> 10, shard |-> 2, beacon_block_root |-> "b2"]]>>}]

(* validate_attestation_without_signature(state, attestation, spec).is_ok(): *)
(* the attestation is of a slot before the slot of the state.               *)
validate_attestation_without_signature(state, attestation) ==
    attestation.data.slot < state.slot

known_attestation_data(state) ==
    {state.latest_attestations[i].data : i \in DOMAIN state.latest_attestations}

(* is_selected with one condition sufficing. *)
is_selected_either(state, attestation) ==
    \/ validate_attestation_without_signature(state, attestation)
    \/ attestation.data \notin known_attestation_data(state)

(* The condition of the filter_map. *)
is_selected(state, attestation) ==
    /\ validate_attestation_without_signature(state, attestation)
    /\ attestation.data \notin known_attestation_data(state)

(* clone_attestation handing out the stored entry itself. *)
clone_attestation_shared(st, key) == [key |-> key, copy |-> None]

(* attestation.clone(): a copy of the entry as it is now. *)
clone_attestation(st, key) == [key |-> key, copy |-> Some(st[key])]

(* The attestation an element of a returned list holds, read now. *)
attestation_of(element, st) ==
    IF element.copy # None THEN Unwrap(element.copy) ELSE st[element.key]

(* The orders in which values() may visit a set of entries. *)
orderings(keys) ==
    {q \in [1..Cardinality(keys) -> keys] :
        \A i, j \in 1..Cardinality(keys) : q[i] = q[j] => i = j}

(* The lists get_attestations_for_state may return on the store st. *)
get_attestations_for_state(st, state) ==
    LET keys == {k \in DOMAIN st : is_selected(state, st[k])} IN
    {[i \in 1..Cardinality(keys) |-> clone_attestation(st, q[i])] : q \in orderings(keys)}

(* Block production asks for the attestations to include. *)
GetAttestationsForState ==
    /\ last # Some(Panic)
    /\ self_borrow = None
    /\ \E state \in ProductionStates :
          \E attestations \in get_attestations_for_state(store, state) :
              returned' = Some([state |-> state, attestations |-> attestations])
    /\ UNCHANGED <<store, last, attesters, agg_call, self_borrow>>
    /\ UNCHANGED nonAggVars

(***************************************************************************)
(* process_free_attestation called by several tasks: each call holds       *)
(* &mut self from entry to return.                                         *)
(***************************************************************************)
AggTasks == 1..3

(* The calls the tasks make: any validator attesting to the block b1 at    *)
(* slot 10 and shard 2, with its own signature or that of its neighbour.   *)
TaskCalls ==
    {c \in ProcessCalls :
        /\ c[1].epoch_cache = "Built"
        /\ c[2].data = [slot |-> 10, shard |-> 2, beacon_block_root |-> "b1"]
        /\ c[2].signature.message = signable_message(c[2].data, PHASE_0_CUSTODY_BIT)}

IdleAggCall ==
    [pc |-> "idle", cached_state |-> None, free_attestation |-> None,
     existing_attestation |-> None, result |-> None]

AggDuties(t) ==
    Unwrap(attestation_slot_and_shard_for_validator(
               Unwrap(agg_call[t].cached_state),
               Unwrap(agg_call[t].free_attestation).validator_index).value)

AggReturn(t, result) ==
    /\ agg_call' = [agg_call EXCEPT ![t].pc = "done", ![t].result = Some(result)]
    /\ self_borrow' = None

(* EnterProcess without exclusive access to the aggregator. *)
EnterProcess_shared(t) ==
    /\ agg_call[t].pc = "idle"
    /\ \E c \in TaskCalls :
          agg_call' = [agg_call EXCEPT ![t].pc = "duties",
                                       ![t].cached_state = Some(c[1]),
                                       ![t].free_attestation = Some(c[2])]
    /\ UNCHANGED <<store, last, attesters, returned, self_borrow>>
    /\ UNCHANGED nonAggVars

(* The call starts once the task has &mut self. *)
EnterProcess(t) ==
    /\ agg_call[t].pc = "idle"
    /\ self_borrow = None
    /\ self_borrow' = Some(t)
    /\ \E c \in TaskCalls :
          agg_call' = [agg_call EXCEPT ![t].pc = "duties",
                                       ![t].cached_state = Some(c[1]),
                                       ![t].free_attestation = Some(c[2])]
    /\ UNCHANGED <<store, last, attesters, returned>>
    /\ UNCHANGED nonAggVars

(* The duty of the validator and the slot and shard of the data. *)
ResolveDuties(t) ==
    /\ agg_call[t].pc = "duties"
    /\ LET free_attestation == Unwrap(agg_call[t].free_attestation)
           attestation_duties ==
               attestation_slot_and_shard_for_validator(
                   Unwrap(agg_call[t].cached_state), free_attestation.validator_index)
       IN
       IF match_duties(attestation_duties) # None
       THEN AggReturn(t, Unwrap(match_duties(attestation_duties)))
       ELSE IF check_duties(free_attestation, AggDuties(t)) # None
       THEN AggReturn(t, Ok([valid |-> FALSE,
                             message |-> Unwrap(check_duties(free_attestation,
                                                             AggDuties(t)))]))
       ELSE /\ agg_call' = [agg_call EXCEPT ![t].pc = "verify"]
            /\ UNCHANGED self_borrow
    /\ UNCHANGED <<store, last, attesters, returned>>
    /\ UNCHANGED nonAggVars

(* The registry lookup and the signature verification. *)
VerifySignature(t) ==
    /\ agg_call[t].pc = "verify"
    /\ LET free_attestation == Unwrap(agg_call[t].free_attestation)
           signable == signable_message(free_attestation.data, PHASE_0_CUSTODY_BIT)
       IN
       IF free_attestation.validator_index \notin DOMAIN validator_registry
       THEN AggReturn(t, Ok([valid |-> FALSE, message |-> "BadValidatorIndex"]))
       ELSE IF ~signature_verifies(free_attestation, signable,
                                   validator_registry[free_attestation.validator_index])
       THEN AggReturn(t, Ok([valid |-> FALSE, message |-> "BadSignature"]))
       ELSE /\ agg_call' = [agg_call EXCEPT ![t].pc = "lookup"]
            /\ UNCHANGED self_borrow
    /\ UNCHANGED <<store, last, attesters, returned>>
    /\ UNCHANGED nonAggVars

(* self.store.get(&signable_message) *)
LookupStore(t) ==
    /\ agg_call[t].pc = "lookup"
    /\ LET free_attestation == Unwrap(agg_call[t].free_attestation)
           signable == signable_message(free_attestation.data, PHASE_0_CUSTODY_BIT)
       IN
       agg_call' = [agg_call EXCEPT ![t].pc = "mutate",
                                    ![t].existing_attestation = store_get(store, signable)]
    /\ UNCHANGED <<store, last, attesters, returned, self_borrow>>
    /\ UNCHANGED nonAggVars

(* The aggregation into the entry found, or the insertion of a new one. *)
MutateStore(t) ==
    /\ agg_call[t].pc = "mutate"
    /\ LET free_attestation == Unwrap(agg_call[t].free_attestation)
           signable == signable_message(free_attestation.data, PHASE_0_CUSTODY_BIT)
           committee_index == AggDuties(t).committee_index
           existing == agg_call[t].existing_attestation
           updated == aggregate_attestation(Unwrap(existing),
                                            free_attestation.signature, committee_index)
       IN
       IF existing # None
       THEN IF updated # None
            THEN /\ store' = store_insert(store, signable, Unwrap(updated))
                 /\ AggReturn(t, Ok([valid |-> TRUE, message |-> "Aggregated"]))
            ELSE /\ store' = store
                 /\ AggReturn(t, Ok([valid |-> TRUE,
                                      message |-> "AggregationNotRequired"]))
       ELSE /\ store' = store_insert(store, signable,
                                     new_attestation(free_attestation, committee_index))
            /\ AggReturn(t, Ok([valid |-> TRUE, message |-> "NewAttestationCreated"]))
    /\ UNCHANGED <<last, attesters, returned>>
    /\ UNCHANGED nonAggVars

(***************************************************************************)
(* BlockWrapper and AvailableBlock.                                        *)
(***************************************************************************)
(* The blocks: one of the blob-carrying fork that declares a commitment,   *)
(* one of a fork before it.                                                *)
SignedBeaconBlocks ==
    {[root |-> "blockA", fork |-> "Eip4844", kzg_commitments |-> 1,
      slot |-> 3, parent_root |-> "blockB", state_root |-> "stateA",
      signature |-> "sigA"],
     [root |-> "blockB", fork |-> "Capella", kzg_commitments |-> 0,
      slot |-> 1, parent_root |-> "genesis", state_root |-> "stateB",
      signature |-> "sigB"]}

(* SignedBeaconBlock: the epoch of its slot, its header and its message. *)
SignedBeaconBlock_epoch(block) == block.slot \div SlotsPerEpoch

SignedBeaconBlock_signed_block_header(block) ==
    [slot |-> block.slot, parent_root |-> block.parent_root,
     state_root |-> block.state_root, signature |-> block.signature]

SignedBeaconBlock_message(block) ==
    [slot |-> block.slot, parent_root |-> block.parent_root,
     state_root |-> block.state_root, fork |-> block.fork,
     kzg_commitments |-> block.kzg_commitments]

Places == 1..MaxWrappers

(* enum BlockWrapper *)
Available(available_block) ==
    [variant |-> "Available", block |-> available_block]
AvailabilityPending(block) ==
    [variant |-> "AvailabilityPending", block |-> block]

(* AsBlock::as_block *)
as_block(wrapper) ==
    IF wrapper.variant = "Available" THEN wrapper.block.block
    ELSE wrapper.block

(* AsBlock::canonical_root *)
canonical_root(wrapper) == as_block(wrapper).root

(* impl AsBlock for BlockWrapper: each accessor matches on the variant and *)
(* asks the block.                                                         *)
AsBlock_slot(wrapper) ==
    IF wrapper.variant = "Available" THEN wrapper.block.block.slot
    ELSE wrapper.block.slot

AsBlock_epoch(wrapper) ==
    IF wrapper.variant = "Available" THEN SignedBeaconBlock_epoch(wrapper.block.block)
    ELSE SignedBeaconBlock_epoch(wrapper.block)

AsBlock_parent_root(wrapper) ==
    IF wrapper.variant = "Available" THEN wrapper.block.block.parent_root
    ELSE wrapper.block.parent_root

AsBlock_state_root(wrapper) ==
    IF wrapper.variant = "Available" THEN wrapper.block.block.state_root
    ELSE wrapper.block.state_root

AsBlock_signed_block_header(wrapper) ==
    IF wrapper.variant = "Available" THEN SignedBeaconBlock_signed_block_header(wrapper.block.block)
    ELSE SignedBeaconBlock_signed_block_header(wrapper.block)

AsBlock_message(wrapper) ==
    IF wrapper.variant = "Available" THEN SignedBeaconBlock_message(wrapper.block.block)
    ELSE SignedBeaconBlock_message(wrapper.block)

AsBlock_block_cloned(wrapper) ==
    IF wrapper.variant = "Available" THEN wrapper.block.block
    ELSE wrapper.block

(* impl AsBlock for &BlockWrapper *)
AsBlockRef_slot(wrapper) ==
    IF wrapper.variant = "Available" THEN wrapper.block.block.slot
    ELSE wrapper.block.slot

AsBlockRef_epoch(wrapper) ==
    IF wrapper.variant = "Available" THEN SignedBeaconBlock_epoch(wrapper.block.block)
    ELSE SignedBeaconBlock_epoch(wrapper.block)

AsBlockRef_parent_root(wrapper) ==
    IF wrapper.variant = "Available" THEN wrapper.block.block.parent_root
    ELSE wrapper.block.parent_root

(* AsBlockRef_state_root answering the parent root of an available block. *)
AsBlockRef_state_root_parent(wrapper) ==
    IF wrapper.variant = "Available" THEN wrapper.block.block.parent_root
    ELSE wrapper.block.state_root

AsBlockRef_state_root(wrapper) ==
    IF wrapper.variant = "Available" THEN wrapper.block.block.state_root
    ELSE wrapper.block.state_root

AsBlockRef_signed_block_header(wrapper) ==
    IF wrapper.variant = "Available" THEN SignedBeaconBlock_signed_block_header(wrapper.block.block)
    ELSE SignedBeaconBlock_signed_block_header(wrapper.block)

AsBlockRef_message(wrapper) ==
    IF wrapper.variant = "Available" THEN SignedBeaconBlock_message(wrapper.block.block)
    ELSE SignedBeaconBlock_message(wrapper.block)

AsBlockRef_as_block(wrapper) ==
    IF wrapper.variant = "Available" THEN wrapper.block.block
    ELSE wrapper.block

AsBlockRef_block_cloned(wrapper) ==
    IF wrapper.variant = "Available" THEN wrapper.block.block
    ELSE wrapper.block

AsBlockRef_canonical_root(wrapper) ==
    IF wrapper.variant = "Available" THEN wrapper.block.block.root
    ELSE wrapper.block.root

(* The blobs an available block of this block carries: the variant that    *)
(* states why none are required, or the list of its blobs.                 *)
verified_blobs(block) ==
    IF block.fork # "Eip4844" THEN [variant |-> "PreEip4844"]
    ELSE IF block.kzg_commitments = 0 THEN [variant |-> "EmptyBlobs"]
    ELSE [variant |-> "Available",
          blobs |-> [k \in 1..block.kzg_commitments |-> <<block.root, k>>]]

(* blobs() answering an empty list for a block that declares no blobs. *)
AvailableBlock_blobs_emptyList(available_block) ==
    IF available_block.blobs.variant \in {"NotRequired", "PreEip4844"}
    THEN None
    ELSE IF available_block.blobs.variant = "EmptyBlobs"
    THEN Some(<<>>)
    ELSE Some(available_block.blobs.blobs)

(* AvailableBlock::blobs(&self): the list of an Available variant. *)
AvailableBlock_blobs(available_block) ==
    IF available_block.blobs.variant \in {"EmptyBlobs", "NotRequired", "PreEip4844"}
    THEN None
    ELSE Some(available_block.blobs.blobs)

(* AvailableBlock::deconstruct(self): the block and the list, if any. *)
AvailableBlock_deconstruct(available_block) ==
    IF available_block.blobs.variant \in {"EmptyBlobs", "NotRequired", "PreEip4844"}
    THEN <<available_block.block, None>>
    ELSE <<available_block.block, Some(available_block.blobs.blobs)>>

(* The availability check completes for a block and builds its             *)
(* AvailableBlock.                                                         *)
MakeAvailableBlock ==
    /\ \E block \in SignedBeaconBlocks :
          /\ [block |-> block, blobs |-> verified_blobs(block)] \notin available_blocks
          /\ available_blocks' =
                available_blocks \cup {[block |-> block, blobs |-> verified_blobs(block)]}
    /\ wrapper_op' = "make_available_block"
    /\ UNCHANGED <<wrappers, arcs, reached_available>>
    /\ UNCHANGED nonWrapperVars

(* impl From<SignedBeaconBlock<E>> for BlockWrapper<E>: a block arrives. *)
FromSignedBeaconBlock ==
    /\ \E i \in Places, block \in SignedBeaconBlocks :
          /\ wrappers[i] = None
          /\ wrappers' = [wrappers EXCEPT ![i] = Some(AvailabilityPending(block))]
    /\ wrapper_op' = "from_block"
    /\ UNCHANGED <<available_blocks, arcs, reached_available>>
    /\ UNCHANGED nonWrapperVars

(* impl From<Arc<SignedBeaconBlock<E>>> for BlockWrapper<E> *)
FromArc ==
    /\ \E i \in Places, block \in arcs :
          /\ wrappers[i] = None
          /\ wrappers' = [wrappers EXCEPT ![i] = Some(AvailabilityPending(block))]
    /\ wrapper_op' = "from_arc"
    /\ UNCHANGED <<available_blocks, arcs, reached_available>>
    /\ UNCHANGED nonWrapperVars

(* From<AvailableBlock> building the pending variant of the block. *)
FromAvailableBlock_pending ==
    /\ \E i \in Places, available_block \in available_blocks :
          /\ wrappers[i] = None
          /\ wrappers' = [wrappers EXCEPT
                             ![i] = Some(AvailabilityPending(available_block.block))]
    /\ wrapper_op' = "from_available_block"
    /\ UNCHANGED <<available_blocks, arcs, reached_available>>
    /\ UNCHANGED nonWrapperVars

(* From<AvailableBlock> wrapping the block with an empty list of blobs. *)
FromAvailableBlock_emptied ==
    /\ \E i \in Places, available_block \in available_blocks :
          /\ wrappers[i] = None
          /\ wrappers' = [wrappers EXCEPT
                             ![i] = Some(Available(
                                 [block |-> available_block.block,
                                  blobs |-> [variant |-> "Available", blobs |-> <<>>]]))]
          /\ reached_available' = reached_available \cup {available_block.block.root}
    /\ wrapper_op' = "from_available_block"
    /\ UNCHANGED <<available_blocks, arcs>>
    /\ UNCHANGED nonWrapperVars

(* impl From<AvailableBlock<E>> for BlockWrapper<E> *)
FromAvailableBlock ==
    /\ \E i \in Places, available_block \in available_blocks :
          /\ wrappers[i] = None
          /\ wrappers' = [wrappers EXCEPT ![i] = Some(Available(available_block))]
          /\ reached_available' = reached_available \cup {available_block.block.root}
    /\ wrapper_op' = "from_available_block"
    /\ UNCHANGED <<available_blocks, arcs>>
    /\ UNCHANGED nonWrapperVars

(* BlockWrapper::into_available_block(self): the wrapper is consumed. *)
into_available_block ==
    /\ \E i \in Places :
          /\ wrappers[i] # None
          /\ wrappers' = [wrappers EXCEPT ![i] = None]
          /\ IF Unwrap(wrappers[i]).variant = "AvailabilityPending"
             THEN available_blocks' = available_blocks
             ELSE available_blocks' = available_blocks \cup {Unwrap(wrappers[i]).block}
    /\ wrapper_op' = "into_available_block"
    /\ UNCHANGED <<arcs, reached_available>>
    /\ UNCHANGED nonWrapperVars

(* impl IntoAvailableBlock for BlockWrapper: into_available_block(self,    *)
(* block_root, chain) is todo!(): the call panics and the wrapper it took  *)
(* is dropped.                                                             *)
IntoAvailableBlock_into_available_block ==
    /\ \E i \in Places :
          /\ wrappers[i] # None
          /\ wrappers' = [wrappers EXCEPT ![i] = None]
    /\ wrapper_op' = "IntoAvailableBlock_panic"
    /\ UNCHANGED <<available_blocks, arcs, reached_available>>
    /\ UNCHANGED nonWrapperVars

(* AsBlock::block_cloned: an Arc of the block of either variant. *)
block_cloned ==
    /\ \E i \in Places :
          /\ wrappers[i] # None
          /\ AsBlock_block_cloned(Unwrap(wrappers[i])) \notin arcs
          /\ arcs' = arcs \cup {AsBlock_block_cloned(Unwrap(wrappers[i]))}
    /\ wrapper_op' = "block_cloned"
    /\ UNCHANGED <<wrappers, available_blocks, reached_available>>
    /\ UNCHANGED nonWrapperVars

(* #[derive(Clone)] *)
clone ==
    /\ \E i, j \in Places :
          /\ wrappers[i] # None
          /\ wrappers[j] = None
          /\ wrappers' = [wrappers EXCEPT ![j] = wrappers[i]]
    /\ wrapper_op' = "clone"
    /\ UNCHANGED <<available_blocks, arcs, reached_available>>
    /\ UNCHANGED nonWrapperVars

(***************************************************************************)
(* verify_data_availability.                                               *)
(***************************************************************************)
KzgCommitments == {"c1", "c2"}

(* Seq(S) up to a length. *)
SeqUpTo(S, n) == UNION {[1..k -> S] : k \in 0..n}

(* The transactions of a payload: a transaction of another type, or a blob  *)
(* transaction with the versioned hashes of its commitments.                *)
kzg_commitment_to_versioned_hash(commitment) == <<"versioned", commitment>>

BlobTransaction(commitments) ==
    [blob |-> TRUE,
     versioned_hashes |-> [k \in DOMAIN commitments |->
                              kzg_commitment_to_versioned_hash(commitments[k])]]

TransactionKinds ==
    {[blob |-> FALSE, versioned_hashes |-> <<>>],
     BlobTransaction(<<"c1">>), BlobTransaction(<<"c2">>),
     BlobTransaction(<<"c1", "c2">>)}

(* A blob with its proof: it verifies against its commitment, it does not, *)
(* or the library cannot read it.                                          *)
BlobKinds == {"valid", "invalid", "malformed"}

(* The versioned hashes of the blob transactions, in the order of the      *)
(* transactions.                                                           *)
RECURSIVE blob_versioned_hashes(_)
blob_versioned_hashes(transactions) ==
    IF transactions = <<>> THEN <<>>
    ELSE (IF Head(transactions).blob THEN Head(transactions).versioned_hashes ELSE <<>>)
         \o blob_versioned_hashes(Tail(transactions))

(* verify_kzg_commitments_against_transactions: the hashes and the         *)
(* commitments are walked together; a pair that differs, or one list       *)
(* ending before the other, is an error.                                   *)
RECURSIVE zip_longest_matches(_, _)
zip_longest_matches(hashes, commitments) ==
    IF hashes = <<>> /\ commitments = <<>> THEN Ok("unit")
    ELSE IF hashes = <<>> \/ commitments = <<>> THEN Err("LengthMismatch")
    ELSE IF Head(hashes) # kzg_commitment_to_versioned_hash(Head(commitments))
    THEN Err("HashMismatch")
    ELSE zip_longest_matches(Tail(hashes), Tail(commitments))

verify_kzg_commitments_against_transactions(transactions, kzg_commitments) ==
    zip_longest_matches(blob_versioned_hashes(transactions), kzg_commitments)

(* A KZG proof as the library reads it: a point of the curve, or bytes     *)
(* that are none.                                                          *)
KzgProofKinds == {"wellformed", "malformed"}

(* The evaluation points and values. *)
Hash256s == {"h1", "h2"}

(* Kzg::verify_blob_kzg_proof *)
verify_blob_kzg_proof(blob, kzg_commitment, kzg_proof) ==
    IF blob = "malformed" \/ kzg_proof = "malformed"
    THEN Err("KzgError")
    ELSE Ok(blob = "valid")

(* Kzg::verify_blob_kzg_proof_batch *)
verify_blob_kzg_proof_batch(blobs, expected_kzg_commitments, kzg_proofs) ==
    IF Len(blobs) # Len(expected_kzg_commitments)
       \/ Len(blobs) # Len(kzg_proofs)
       \/ (\E k \in DOMAIN blobs : blobs[k] = "malformed")
       \/ (\E j \in DOMAIN kzg_proofs : kzg_proofs[j] = "malformed")
    THEN Err("KzgError")
    ELSE Ok(\A k \in DOMAIN blobs : blobs[k] = "valid")

(* Kzg::compute_blob_kzg_proof *)
Kzg_compute_blob_kzg_proof(blob, kzg_commitment) ==
    IF blob = "malformed" THEN Err("KzgError")
    ELSE Ok(<<"proof", blob, kzg_commitment>>)

(* Kzg::blob_to_kzg_commitment *)
Kzg_blob_to_kzg_commitment(blob) ==
    IF blob = "malformed" THEN Err("KzgError")
    ELSE Ok(<<"commitment", blob>>)

(* The value at z of the polynomial of a blob or of a commitment. *)
Evaluation(polynomial, z) ==
    IF polynomial \in {"valid", "c1"} THEN z
    ELSE IF z = "h1" THEN "h2" ELSE "h1"

(* Kzg::compute_kzg_proof: the proof and the value at z, as Bytes32. *)
Kzg_compute_kzg_proof(blob, z) ==
    IF blob = "malformed" THEN Err("KzgError")
    ELSE Ok(<<<<"proof", blob, z.value>>,
              [bytes |-> 32, value |-> Evaluation(blob, z.value)]>>)

(* Kzg::verify_kzg_proof *)
Kzg_verify_kzg_proof(kzg_commitment, z, y, kzg_proof) ==
    IF kzg_proof = "malformed" THEN Err("KzgError")
    ELSE Ok(y.value = Evaluation(kzg_commitment, z.value))

(* z.0.into(): the 32 bytes of a Hash256 as Bytes32. *)
Bytes32_from(hash) == [bytes |-> 32, value |-> hash]

(* Hash256::from_slice(&z.to_vec()): panics on a slice that is not 32      *)
(* bytes long.                                                             *)
Hash256_from_slice(slice) ==
    IF slice.bytes = 32 THEN Ok(slice.value) ELSE Panic

(* kzg_utils::validate_blob *)
validate_blob(kzg, blob, kzg_commitment, kzg_proof) ==
    verify_blob_kzg_proof(blob, kzg_commitment, kzg_proof)

(* validate_blobs pairing the lists by the index of the blobs. *)
validate_blobs_indexed(kzg, expected_kzg_commitments, blobs, kzg_proofs) ==
    IF \E k \in DOMAIN blobs :
          k \notin DOMAIN expected_kzg_commitments \/ k \notin DOMAIN kzg_proofs
    THEN Panic
    ELSE verify_blob_kzg_proof_batch(
             blobs,
             [k \in DOMAIN blobs |-> expected_kzg_commitments[k]],
             [k \in DOMAIN blobs |-> kzg_proofs[k]])

(* kzg_utils::validate_blobs *)
validate_blobs(kzg, expected_kzg_commitments, blobs, kzg_proofs) ==
    verify_blob_kzg_proof_batch(blobs, expected_kzg_commitments, kzg_proofs)

(* kzg_utils::compute_blob_kzg_proof *)
compute_blob_kzg_proof(kzg, blob, kzg_commitment) ==
    Kzg_compute_blob_kzg_proof(blob, kzg_commitment)

(* kzg_utils::blob_to_kzg_commitment *)
blob_to_kzg_commitment(kzg, blob) ==
    Kzg_blob_to_kzg_commitment(blob)

(* kzg_utils::compute_kzg_proof *)
compute_kzg_proof(kzg, blob, z) ==
    LET computed == Kzg_compute_kzg_proof(blob, Bytes32_from(z)) IN
    IF computed.kind = "Err" THEN computed
    ELSE LET y == Hash256_from_slice(computed.value[2]) IN
         IF y = Panic THEN Panic
         ELSE Ok(<<computed.value[1], y.value>>)

(* kzg_utils::verify_kzg_proof *)
verify_kzg_proof(kzg, kzg_commitment, kzg_proof, z, y) ==
    Kzg_verify_kzg_proof(kzg_commitment, Bytes32_from(z), Bytes32_from(y), kzg_proof)

(* A call of the adapter, by the name of the function and its arguments    *)
(* after the trusted setup.                                                *)
kzg_utils(kzg, function, args) ==
    IF function = "validate_blob"
    THEN validate_blob(kzg, args[1], args[2], args[3])
    ELSE IF function = "validate_blobs"
    THEN validate_blobs(kzg, args[1], args[2], args[3])
    ELSE IF function = "compute_blob_kzg_proof"
    THEN compute_blob_kzg_proof(kzg, args[1], args[2])
    ELSE IF function = "blob_to_kzg_commitment"
    THEN blob_to_kzg_commitment(kzg, args[1])
    ELSE IF function = "compute_kzg_proof"
    THEN compute_kzg_proof(kzg, args[1], args[2])
    ELSE verify_kzg_proof(kzg, args[1], args[2], args[3], args[4])

IdleKzgCall ==
    [function |-> "none", kzg |-> "trusted_setup", args |-> <<>>,
     result |-> None, again |-> None]

(* The record of a call of the adapter by a caller holding the trusted     *)
(* setup.                                                                  *)
KzgCalled(function, args) ==
    [IdleKzgCall EXCEPT
        !.function = function,
        !.args = args,
        !.result = Some(kzg_utils(kzg_call.kzg, function, args))]

ValidateBlob ==
    /\ kzg_call.function = "none"
    /\ \E blob \in BlobKinds, kzg_commitment \in KzgCommitments,
          kzg_proof \in KzgProofKinds :
          kzg_call' = KzgCalled("validate_blob", <<blob, kzg_commitment, kzg_proof>>)
    /\ UNCHANGED nonKzgVars

ValidateBlobsBatch ==
    /\ kzg_call.function = "none"
    /\ \E expected_kzg_commitments \in SeqUpTo(KzgCommitments, MaxBlobIndex),
          blobs \in SeqUpTo(BlobKinds, MaxBlobIndex),
          kzg_proofs \in SeqUpTo(KzgProofKinds, MaxBlobIndex) :
          kzg_call' = KzgCalled("validate_blobs",
                                <<expected_kzg_commitments, blobs, kzg_proofs>>)
    /\ UNCHANGED nonKzgVars

ComputeBlobKzgProof ==
    /\ kzg_call.function = "none"
    /\ \E blob \in BlobKinds, kzg_commitment \in KzgCommitments :
          kzg_call' = KzgCalled("compute_blob_kzg_proof", <<blob, kzg_commitment>>)
    /\ UNCHANGED nonKzgVars

BlobToKzgCommitment ==
    /\ kzg_call.function = "none"
    /\ \E blob \in BlobKinds :
          kzg_call' = KzgCalled("blob_to_kzg_commitment", <<blob>>)
    /\ UNCHANGED nonKzgVars

ComputeKzgProof ==
    /\ kzg_call.function = "none"
    /\ \E blob \in BlobKinds, z \in Hash256s :
          kzg_call' = KzgCalled("compute_kzg_proof", <<blob, z>>)
    /\ UNCHANGED nonKzgVars

VerifyKzgProof ==
    /\ kzg_call.function = "none"
    /\ \E kzg_commitment \in KzgCommitments, kzg_proof \in KzgProofKinds,
          z \in Hash256s, y \in Hash256s :
          kzg_call' = KzgCalled("verify_kzg_proof",
                                <<kzg_commitment, kzg_proof, z, y>>)
    /\ UNCHANGED nonKzgVars

(* The caller makes the same call once more, with the same trusted setup. *)
KzgCalledAgain ==
    /\ kzg_call.result # None
    /\ kzg_call.again = None
    /\ kzg_call.result # Some(Panic)
    /\ kzg_call' = [kzg_call EXCEPT
                       !.again = Some(kzg_utils(kzg_call.kzg, kzg_call.function,
                                                kzg_call.args))]
    /\ UNCHANGED nonKzgVars

(* The caller takes the results and is ready for another call. *)
KzgReturn ==
    /\ kzg_call.again # None
    /\ kzg_call' = IdleKzgCall
    /\ UNCHANGED nonKzgVars

IdleVerifyCall ==
    [pc |-> "idle", blob_sidecar |-> <<>>, kzg_commitments |-> <<>>,
     transactions |-> <<>>, kzg |-> None, kzg_verified |-> FALSE, result |-> None]

(* Block import calls verify_data_availability. *)
StartVerify ==
    /\ verify_call.pc = "idle"
    /\ \E blob_sidecar \in SeqUpTo(BlobKinds, MaxBlobIndex),
          kzg_commitments \in SeqUpTo(KzgCommitments, MaxBlobIndex),
          transactions \in SeqUpTo(TransactionKinds, 2),
          kzg \in {None, Some("trusted_setup")} :
          verify_call' = [IdleVerifyCall EXCEPT
                             !.pc = "transactions",
                             !.blob_sidecar = blob_sidecar,
                             !.kzg_commitments = kzg_commitments,
                             !.transactions = transactions,
                             !.kzg = kzg]
    /\ UNCHANGED nonVerifyVars

(* CheckTransactions asking for the trusted setup first. *)
CheckTransactions_setupFirst ==
    /\ verify_call.pc = "transactions"
    /\ IF verify_call.kzg = None
       THEN verify_call' = [verify_call EXCEPT
                               !.pc = "done",
                               !.result = Some(Err("TrustedSetupNotInitialized"))]
       ELSE IF verify_kzg_commitments_against_transactions(
                   verify_call.transactions, verify_call.kzg_commitments).kind = "Err"
       THEN verify_call' = [verify_call EXCEPT
                               !.pc = "done",
                               !.result = Some(Err("TransactionCommitmentMismatch"))]
       ELSE verify_call' = [verify_call EXCEPT !.pc = "kzg"]
    /\ UNCHANGED nonVerifyVars

(* The commitments against the transactions. *)
CheckTransactions ==
    /\ verify_call.pc = "transactions"
    /\ IF verify_kzg_commitments_against_transactions(
              verify_call.transactions, verify_call.kzg_commitments).kind = "Err"
       THEN verify_call' = [verify_call EXCEPT
                               !.pc = "done",
                               !.result = Some(Err("TransactionCommitmentMismatch"))]
       ELSE verify_call' = [verify_call EXCEPT !.pc = "kzg"]
    /\ UNCHANGED nonVerifyVars

(* chain.kzg.as_ref().ok_or(TrustedSetupNotInitialized)? *)
CheckTrustedSetup ==
    /\ verify_call.pc = "kzg"
    /\ IF verify_call.kzg = None
       THEN verify_call' = [verify_call EXCEPT
                               !.pc = "done",
                               !.result = Some(Err("TrustedSetupNotInitialized"))]
       ELSE verify_call' = [verify_call EXCEPT !.pc = "validate"]
    /\ UNCHANGED nonVerifyVars

(* todo!("use `kzg_utils::validate_blobs` once the function is updated") *)
ValidateBlobs ==
    /\ verify_call.pc = "validate"
    /\ verify_call' = [verify_call EXCEPT !.pc = "done", !.result = Some(Panic)]
    /\ UNCHANGED nonVerifyVars

(* The caller takes the result of a call that returned. *)
ReturnVerify ==
    /\ verify_call.pc = "done"
    /\ verify_call.result # Some(Panic)
    /\ verify_call' = IdleVerifyCall
    /\ UNCHANGED nonVerifyVars

(***************************************************************************)
(* The State of an execution engine and its notifier.                      *)
(***************************************************************************)
EngineStates == {"Synced", "Offline", "Syncing", "AuthFailed"}

(* EngineState::default() *)
EngineState_default == "Offline"

(* EngineState::is_synced *)
is_synced(state) == state = "Synced"

(* watch::channel(init): the value and its version; the receiver of        *)
(* default() is dropped at once.                                           *)
watch_channel(init) == [value |-> init, version |-> 0]

(* State::default(); updates counts the update calls made.                 *)
State_default ==
    [state |-> EngineState_default,
     notifier |-> watch_channel(is_synced(EngineState_default)),
     watchers |-> <<>>,
     updates |-> 0,
     notified |-> FALSE]

(* update sending the value with watch::Sender::send, which stores nothing *)
(* while no receiver is left.                                              *)
State_update_send(new_state) ==
    /\ engine.updates < MaxUpdates
    /\ LET new_sync_state == is_synced(new_state) IN
       engine' = [engine EXCEPT
                     !.state = new_state,
                     !.updates = @ + 1,
                     !.notified = engine.watchers # <<>>,
                     !.notifier = IF engine.watchers = <<>> THEN @
                                  ELSE [value |-> new_sync_state,
                                        version |-> @.version + 1]]
    /\ UNCHANGED nonEngineVars

(* State::update: send_if_modified stores the value in every case and      *)
(* notifies when the closure answers changed.                              *)
State_update(new_state) ==
    /\ engine.updates < MaxUpdates
    /\ LET new_sync_state == is_synced(new_state)
           changed == engine.notifier.value # new_sync_state
       IN
       engine' = [engine EXCEPT
                     !.state = new_state,
                     !.updates = @ + 1,
                     !.notified = changed,
                     !.notifier = [value |-> new_sync_state,
                                   version |-> IF changed THEN @.version + 1
                                               ELSE @.version]]
    /\ UNCHANGED nonEngineVars

(* State::watch: notifier.subscribe().into(), a stream that has yielded    *)
(* nothing yet.                                                            *)
State_watch ==
    /\ Len(engine.watchers) < MaxWatchers
    /\ engine' = [engine EXCEPT
                     !.watchers = Append(@, [seen |-> engine.notifier.version,
                                             started |-> FALSE,
                                             subscribed_at |-> engine.updates,
                                             observed |-> <<>>])]
    /\ UNCHANGED nonEngineVars

(* watcher.next().await: the first poll yields the value the channel holds; *)
(* a later poll completes once the version has moved past the one seen.     *)
WatcherNext(i) ==
    /\ i \in DOMAIN engine.watchers
    /\ LET w == engine.watchers[i] IN
       /\ ~w.started \/ w.seen < engine.notifier.version
       /\ engine' = [engine EXCEPT
                        !.watchers[i] = [w EXCEPT
                            !.started = TRUE,
                            !.seen = engine.notifier.version,
                            !.observed = Append(@, engine.notifier.value)]]
    /\ UNCHANGED nonEngineVars

(***************************************************************************)
(* The blob gossip validator.                                              *)
(***************************************************************************)
Tasks == DOMAIN call

(* slot_clock.now_with_future_tolerance(d): the slot at time now + d. *)
now_with_future_tolerance(d) ==
    IF slot_clock = None THEN None
    ELSE Some((Unwrap(slot_clock) + d) \div TicksPerSlot)

(* Epoch::start_slot(slots_per_epoch) *)
start_slot(epoch) == epoch * SlotsPerEpoch

(* The fork in effect at a slot: the chain forks at the start of epoch 1. *)
fork_at(slot) == IF slot < SlotsPerEpoch THEN "fork0" ELSE "fork1"

(* beacon_proposer_cache.get_slot(shuffling_root, slot): entries exist for   *)
(* the shuffling root p1 only.                                              *)
proposer_cache_get_slot(root, slot) ==
    IF root = "p1" THEN Some([index |-> slot % 2, fork |-> fork_at(slot)]) ELSE None

(* head state: get_beacon_proposer_index(slot) when it succeeds, and fork(). *)
(* The head state is in epoch 0 and shuffles differently from p1.           *)
head_state_proposer_index(slot) == (slot + 1) % 2
head_state_fork == "fork0"

(* validator_pubkey_cache.get(i): the cache holds the key of validator 0;   *)
(* validator 1 is not in it yet.                                            *)
pubkey_cache_get(i) == IF i = 0 THEN Some(i) ELSE None

(* SignedBlobSidecar::verify_signature(pubkey, fork, ...): the signature was *)
(* made with the secret key of pubkey, in the domain of the fork in effect  *)
(* at the sidecar's slot.                                                   *)
verify_signature(sidecar, pubkey, fork) ==
    sidecar.signature = pubkey /\ fork = fork_at(sidecar.slot)

(* The sidecars of the block r1 that validator 0 proposes on p1 at the last  *)
(* slot it is the proposer of, each signed by it.                           *)
ProposerSlot == 2 * (MaxSlot \div 2)
ProposerSidecars ==
    {[slot |-> ProposerSlot, index |-> i, block_root |-> "r1",
      block_parent_root |-> "p1", proposer_index |-> 0, signature |-> 0] :
        i \in BlobIndexes}

(* The <<sidecar, subnet>> messages the peers deliver: anything at all from  *)
(* any peer, the sidecars of its block from the proposer.                   *)
gossip_messages(peers) ==
    IF peers = "any" THEN SignedBlobSidecars \X BlobIndexes
    ELSE {<<s, s.index>> : s \in ProposerSidecars}

(* The arguments and the locals of one call that outlive a check.  checked *)
(* lists the checks evaluated so far.                                      *)
IdleCall ==
    [pc |-> "idle", signed_blob_sidecar |-> None, subnet |-> None,
     proposer |-> None, all_blobs_available |-> None,
     checked |-> <<>>, result |-> None, locks |-> {}]

Sidecar(t) == Unwrap(call[t].signed_blob_sidecar)

Checked(t, c) == Append(call[t].checked, c)

(* A peer task receives a sidecar on a subnet and calls the validator. *)
Start(t) ==
    /\ call[t].pc = "idle"
    /\ \E m \in gossip_messages(gossip_peers) :
          call' = [call EXCEPT ![t] =
                      [IdleCall EXCEPT !.pc = "subnet",
                                       !.signed_blob_sidecar = Some(m[1]),
                                       !.subnet = Some(m[2])]]
    /\ UNCHANGED <<slot_clock, finalized_epoch, fork_choice, early_attester_cache,
                   pubkey_cache_writer, data_availability_checker, put_log>>
    /\ UNCHANGED gossipLockVars
    /\ UNCHANGED nonGossipVars

(* CheckSubnet with the block-known check moved in front of it. *)
CheckSubnet_blockFirst(t) ==
    /\ call[t].pc = "subnet"
    /\ IF Sidecar(t).block_root \notin fork_choice \cup early_attester_cache
       THEN call' = [call EXCEPT ![t].pc = "done",
                                 ![t].checked = Checked(t, "block"),
                                 ![t].result = Some(Err("UnknownHeadBlock"))]
       ELSE IF Sidecar(t).index # Unwrap(call[t].subnet)
       THEN call' = [call EXCEPT ![t].pc = "done",
                                 ![t].checked = Checked(t, "subnet"),
                                 ![t].result = Some(Err("InvalidSubnet"))]
       ELSE call' = [call EXCEPT ![t].pc = "future_slot",
                                 ![t].checked = Checked(t, "subnet")]
    /\ UNCHANGED <<slot_clock, finalized_epoch, fork_choice, early_attester_cache,
                   pubkey_cache_writer, data_availability_checker, put_log>>
    /\ UNCHANGED gossipLockVars
    /\ UNCHANGED nonGossipVars

(* Verify that the blob_sidecar was received on the correct subnet. *)
CheckSubnet(t) ==
    /\ call[t].pc = "subnet"
    /\ IF Sidecar(t).index # Unwrap(call[t].subnet)
       THEN call' = [call EXCEPT ![t].pc = "done",
                                 ![t].checked = Checked(t, "subnet"),
                                 ![t].result = Some(Err("InvalidSubnet"))]
       ELSE call' = [call EXCEPT ![t].pc = "future_slot",
                                 ![t].checked = Checked(t, "subnet")]
    /\ UNCHANGED <<slot_clock, finalized_epoch, fork_choice, early_attester_cache,
                   pubkey_cache_writer, data_availability_checker, put_log>>
    /\ UNCHANGED gossipLockVars
    /\ UNCHANGED nonGossipVars

(* CheckFutureSlot comparing with >= in place of >. *)
CheckFutureSlot_strict(t) ==
    /\ call[t].pc = "future_slot"
    /\ LET latest == now_with_future_tolerance(MAXIMUM_GOSSIP_CLOCK_DISPARITY) IN
       IF latest = None
       THEN call' = [call EXCEPT ![t].pc = "done",
                                 ![t].checked = Checked(t, "future_slot"),
                                 ![t].result = Some(Err("UnableToReadSlot"))]
       ELSE IF Sidecar(t).slot >= Unwrap(latest)
       THEN call' = [call EXCEPT ![t].pc = "done",
                                 ![t].checked = Checked(t, "future_slot"),
                                 ![t].result = Some(Err("FutureSlot"))]
       ELSE call' = [call EXCEPT ![t].pc = "finalized_slot",
                                 ![t].checked = Checked(t, "future_slot")]
    /\ UNCHANGED <<slot_clock, finalized_epoch, fork_choice, early_attester_cache,
                   pubkey_cache_writer, data_availability_checker, put_log>>
    /\ UNCHANGED gossipLockVars
    /\ UNCHANGED nonGossipVars

(* Verify that the sidecar is not from a future slot. *)
CheckFutureSlot(t) ==
    /\ call[t].pc = "future_slot"
    /\ LET latest == now_with_future_tolerance(MAXIMUM_GOSSIP_CLOCK_DISPARITY) IN
       IF latest = None
       THEN call' = [call EXCEPT ![t].pc = "done",
                                 ![t].checked = Checked(t, "future_slot"),
                                 ![t].result = Some(Err("UnableToReadSlot"))]
       ELSE IF Sidecar(t).slot > Unwrap(latest)
       THEN call' = [call EXCEPT ![t].pc = "done",
                                 ![t].checked = Checked(t, "future_slot"),
                                 ![t].result = Some(Err("FutureSlot"))]
       ELSE call' = [call EXCEPT ![t].pc = "finalized_slot",
                                 ![t].checked = Checked(t, "future_slot")]
    /\ UNCHANGED <<slot_clock, finalized_epoch, fork_choice, early_attester_cache,
                   pubkey_cache_writer, data_availability_checker, put_log>>
    /\ UNCHANGED gossipLockVars
    /\ UNCHANGED nonGossipVars

(* CheckFinalizedSlot comparing with < in place of <=. *)
CheckFinalizedSlot_strict(t) ==
    /\ call[t].pc = "finalized_slot"
    /\ LET finalized == start_slot(finalized_epoch) IN
       IF Sidecar(t).slot < finalized
       THEN call' = [call EXCEPT ![t].pc = "done",
                                 ![t].checked = Checked(t, "finalized_slot"),
                                 ![t].result = Some(Err("PastFinalizedSlot"))]
       ELSE call' = [call EXCEPT ![t].pc = "proposer",
                                 ![t].checked = Checked(t, "finalized_slot")]
    /\ UNCHANGED <<slot_clock, finalized_epoch, fork_choice, early_attester_cache,
                   pubkey_cache_writer, data_availability_checker, put_log>>
    /\ UNCHANGED gossipLockVars
    /\ UNCHANGED nonGossipVars

(* Verify that the sidecar slot is greater than the latest finalized slot. *)
CheckFinalizedSlot(t) ==
    /\ call[t].pc = "finalized_slot"
    /\ LET finalized == start_slot(finalized_epoch) IN
       IF Sidecar(t).slot <= finalized
       THEN call' = [call EXCEPT ![t].pc = "done",
                                 ![t].checked = Checked(t, "finalized_slot"),
                                 ![t].result = Some(Err("PastFinalizedSlot"))]
       ELSE call' = [call EXCEPT ![t].pc = "proposer",
                                 ![t].checked = Checked(t, "finalized_slot")]
    /\ UNCHANGED <<slot_clock, finalized_epoch, fork_choice, early_attester_cache,
                   pubkey_cache_writer, data_availability_checker, put_log>>
    /\ UNCHANGED gossipLockVars
    /\ UNCHANGED nonGossipVars

(* ResolveProposer recomputing from the head state whatever the cache holds. *)
ResolveProposer_headState(sidecar) ==
    {Ok([index |-> head_state_proposer_index(sidecar.slot),
         fork |-> head_state_fork]),
     Err("BeaconStateError")}

(* The proposer the chain resolves for the sidecar: the proposer cache keyed *)
(* by the parent root, else the head state, whose lookup can fail.           *)
ResolveProposer(sidecar) ==
    LET cached == proposer_cache_get_slot(sidecar.block_parent_root, sidecar.slot) IN
    IF cached # None
    THEN {Ok(Unwrap(cached))}
    ELSE {Ok([index |-> head_state_proposer_index(sidecar.slot),
              fork |-> head_state_fork]),
          Err("BeaconStateError")}

(* beacon_proposer_cache.lock() waits for the mutex, however long. *)
CheckProposer(t) ==
    /\ call[t].pc = "proposer"
    /\ ~beacon_proposer_cache_held
    /\ \E resolved \in ResolveProposer(Sidecar(t)) :
          IF resolved.kind = "Err"
          THEN call' = [call EXCEPT ![t].pc = "done",
                                    ![t].checked = Checked(t, "proposer"),
                                    ![t].result = Some(resolved)]
          ELSE IF resolved.value.index # Sidecar(t).proposer_index
          THEN call' = [call EXCEPT ![t].pc = "done",
                                    ![t].checked = Checked(t, "proposer"),
                                    ![t].proposer = Some(resolved.value),
                                    ![t].result = Some(Err("ProposerIndexMismatch"))]
          ELSE call' = [call EXCEPT ![t].pc = "signature",
                                    ![t].checked = Checked(t, "proposer"),
                                    ![t].proposer = Some(resolved.value)]
    /\ UNCHANGED <<slot_clock, finalized_epoch, fork_choice, early_attester_cache,
                   pubkey_cache_writer, data_availability_checker, put_log>>
    /\ UNCHANGED gossipLockVars
    /\ UNCHANGED nonGossipVars

(* chain.beacon_proposer_cache.lock(): the guard is a temporary of the     *)
(* scrutinee of the match, which lives until the match ends.               *)
LockProposerCache(t) ==
    /\ call[t].pc = "proposer"
    /\ ~beacon_proposer_cache_held
    /\ call' = [call EXCEPT ![t].pc = "proposer_match",
                            ![t].locks = @ \cup {"beacon_proposer_cache"}]
    /\ UNCHANGED <<slot_clock, finalized_epoch, fork_choice, early_attester_cache,
                   pubkey_cache_writer, data_availability_checker, put_log>>
    /\ UNCHANGED gossipLockVars
    /\ UNCHANGED nonGossipVars

(* get_slot(proposer_shuffling_root, blob_slot) and the arm it selects: the *)
(* Some arm ends the match; the None arm calls canonical_head.cached_head(), *)
(* which takes the read lock of the cached head.                            *)
MatchProposerCache(t) ==
    /\ call[t].pc = "proposer_match"
    /\ LET cached == proposer_cache_get_slot(Sidecar(t).block_parent_root,
                                            Sidecar(t).slot) IN
       IF cached # None
       THEN call' = [call EXCEPT ![t].pc = "proposer_index",
                                 ![t].proposer = cached,
                                 ![t].locks = @ \ {"beacon_proposer_cache"}]
       ELSE call' = [call EXCEPT ![t].pc = "proposer_head",
                                 ![t].locks = @ \cup {"canonical_head"}]
    /\ UNCHANGED <<slot_clock, finalized_epoch, fork_choice, early_attester_cache,
                   pubkey_cache_writer, data_availability_checker, put_log>>
    /\ UNCHANGED gossipLockVars
    /\ UNCHANGED nonGossipVars

(* cached_head() returns its copy of the head and leaves the read lock;     *)
(* get_beacon_proposer_index and fork() are read from it, and the match     *)
(* ends.                                                                    *)
ReadHeadState(t) ==
    /\ call[t].pc = "proposer_head"
    /\ \E resolved \in {Ok([index |-> head_state_proposer_index(Sidecar(t).slot),
                            fork |-> head_state_fork]),
                        Err("BeaconStateError")} :
          IF resolved.kind = "Err"
          THEN call' = [call EXCEPT ![t].pc = "done",
                                    ![t].checked = Checked(t, "proposer"),
                                    ![t].result = Some(resolved),
                                    ![t].locks = {}]
          ELSE call' = [call EXCEPT ![t].pc = "proposer_index",
                                    ![t].proposer = Some(resolved.value),
                                    ![t].locks = {}]
    /\ UNCHANGED <<slot_clock, finalized_epoch, fork_choice, early_attester_cache,
                   pubkey_cache_writer, data_availability_checker, put_log>>
    /\ UNCHANGED gossipLockVars
    /\ UNCHANGED nonGossipVars

(* proposer_index != blob_proposer_index *)
CompareProposerIndex(t) ==
    /\ call[t].pc = "proposer_index"
    /\ IF Unwrap(call[t].proposer).index # Sidecar(t).proposer_index
       THEN call' = [call EXCEPT ![t].pc = "done",
                                 ![t].checked = Checked(t, "proposer"),
                                 ![t].result = Some(Err("ProposerIndexMismatch"))]
       ELSE call' = [call EXCEPT ![t].pc = "signature",
                                 ![t].checked = Checked(t, "proposer")]
    /\ UNCHANGED <<slot_clock, finalized_epoch, fork_choice, early_attester_cache,
                   pubkey_cache_writer, data_availability_checker, put_log>>
    /\ UNCHANGED gossipLockVars
    /\ UNCHANGED nonGossipVars

(* DataAvailabilityChecker::put_blob_temp on the blobs seen so far: the set  *)
(* of outcomes, each a pair <<returned value, blobs afterwards>>.            *)
put_blob_temp(blobs, sidecar) ==
    LET after == [blobs EXCEPT ![sidecar.block_root] = @ \cup {sidecar.index}] IN
    {<<Ok(after[sidecar.block_root] = BlobIndexes), after>>,
     <<Err("BlobCacheError"), blobs>>}

(* CheckSignature with the cache submission done before the verification. *)
CheckSignature_afterSubmit(t) ==
    /\ call[t].pc = "signature"
    /\ data_availability_checker # None
    /\ LET proposer == Unwrap(call[t].proposer)
           pubkey == pubkey_cache_get(proposer.index)
       IN
       \E out \in put_blob_temp(Unwrap(data_availability_checker), Sidecar(t)) :
          /\ data_availability_checker' = Some(out[2])
          /\ put_log' = [put_log EXCEPT ![t] = Append(@, out[1])]
          /\ IF pubkey = None
                \/ ~verify_signature(Sidecar(t), Unwrap(pubkey), proposer.fork)
             THEN call' = [call EXCEPT ![t].pc = "done",
                                       ![t].checked = Checked(t, "signature"),
                                       ![t].result =
                                           Some(Err("ProposerSignatureInvalid"))]
             ELSE call' = [call EXCEPT ![t].pc = "block",
                                       ![t].checked =
                                           Checked(t, "signature") \o <<"cache">>,
                                       ![t].all_blobs_available = Some(TRUE)]
    /\ UNCHANGED <<slot_clock, finalized_epoch, fork_choice, early_attester_cache,
                   pubkey_cache_writer>>
    /\ UNCHANGED gossipLockVars
    /\ UNCHANGED nonGossipVars

(* Read the pubkey cache within the timeout and verify the signature. *)
CheckSignature(t) ==
    /\ call[t].pc = "signature"
    /\ LET proposer == Unwrap(call[t].proposer)
           pubkey == pubkey_cache_get(proposer.index)
       IN
       IF pubkey_cache_writer
       THEN call' = [call EXCEPT ![t].pc = "done",
                                 ![t].checked = Checked(t, "signature"),
                                 ![t].result =
                                     Some(Err("ValidatorPubkeyCacheLockTimeout"))]
       ELSE IF pubkey = None
       THEN call' = [call EXCEPT ![t].pc = "done",
                                 ![t].checked = Checked(t, "signature"),
                                 ![t].result = Some(Err("UnknownValidator"))]
       ELSE LET valid == verify_signature(Sidecar(t), Unwrap(pubkey), proposer.fork) IN
            IF ~valid
            THEN call' = [call EXCEPT ![t].pc = "done",
                                      ![t].checked = Checked(t, "signature"),
                                      ![t].result =
                                          Some(Err("ProposerSignatureInvalid"))]
            ELSE call' = [call EXCEPT ![t].pc = "cache",
                                      ![t].checked = Checked(t, "signature")]
    /\ UNCHANGED <<slot_clock, finalized_epoch, fork_choice, early_attester_cache,
                   pubkey_cache_writer, data_availability_checker, put_log>>
    /\ UNCHANGED gossipLockVars
    /\ UNCHANGED nonGossipVars

(* SubmitToCache with the block-known check made before the submission. *)
SubmitToCache_blockFirst(t) ==
    /\ call[t].pc = "cache"
    /\ data_availability_checker # None
    /\ IF Sidecar(t).block_root \notin fork_choice \cup early_attester_cache
       THEN /\ call' = [call EXCEPT ![t].pc = "done",
                                    ![t].checked = Checked(t, "cache") \o <<"block">>,
                                    ![t].result = Some(Err("UnknownHeadBlock"))]
            /\ UNCHANGED <<data_availability_checker, put_log>>
       ELSE \E out \in put_blob_temp(Unwrap(data_availability_checker), Sidecar(t)) :
               /\ data_availability_checker' = Some(out[2])
               /\ put_log' = [put_log EXCEPT ![t] = Append(@, out[1])]
               /\ IF out[1].kind = "Err"
                  THEN call' = [call EXCEPT ![t].pc = "done",
                                            ![t].checked = Checked(t, "cache"),
                                            ![t].result = Some(out[1])]
                  ELSE call' = [call EXCEPT ![t].pc = "block",
                                            ![t].checked = Checked(t, "cache"),
                                            ![t].all_blobs_available =
                                                Some(out[1].value)]
    /\ UNCHANGED <<slot_clock, finalized_epoch, fork_choice, early_attester_cache,
                   pubkey_cache_writer>>
    /\ UNCHANGED gossipLockVars
    /\ UNCHANGED nonGossipVars

(* Submit the sidecar to the availability cache. *)
SubmitToCache(t) ==
    /\ call[t].pc = "cache"
    /\ IF data_availability_checker = None
       THEN /\ call' = [call EXCEPT ![t].pc = "done",
                                    ![t].checked = Checked(t, "cache"),
                                    ![t].result = Some(Panic)]
            /\ UNCHANGED <<data_availability_checker, put_log>>
       ELSE \E out \in put_blob_temp(Unwrap(data_availability_checker), Sidecar(t)) :
               /\ data_availability_checker' = Some(out[2])
               /\ put_log' = [put_log EXCEPT ![t] = Append(@, out[1])]
               /\ IF out[1].kind = "Err"
                  THEN call' = [call EXCEPT ![t].pc = "done",
                                            ![t].checked = Checked(t, "cache"),
                                            ![t].result = Some(out[1])]
                  ELSE call' = [call EXCEPT ![t].pc = "block",
                                            ![t].checked = Checked(t, "cache"),
                                            ![t].all_blobs_available =
                                                Some(out[1].value)]
    /\ UNCHANGED <<slot_clock, finalized_epoch, fork_choice, early_attester_cache,
                   pubkey_cache_writer>>
    /\ UNCHANGED gossipLockVars
    /\ UNCHANGED nonGossipVars

(* CheckBlockKnown reading the completeness of the blob set from the cache *)
(* anew when it builds the result.                                        *)
CheckBlockKnown_rereads(t) ==
    /\ call[t].pc = "block"
    /\ ~fork_choice_writer
    /\ LET block_root == Sidecar(t).block_root IN
       IF block_root \notin fork_choice \cup early_attester_cache
       THEN call' = [call EXCEPT ![t].pc = "done",
                                 ![t].checked = Checked(t, "block"),
                                 ![t].result = Some(Err("UnknownHeadBlock"))]
       ELSE call' = [call EXCEPT ![t].pc = "done",
                                 ![t].checked = Checked(t, "block"),
                                 ![t].result =
                                     Some(Ok([all_blobs_available |->
                                                 Unwrap(data_availability_checker)[block_root]
                                                     = BlobIndexes,
                                              block_root |-> block_root]))]
    /\ UNCHANGED <<slot_clock, finalized_epoch, fork_choice, early_attester_cache,
                   pubkey_cache_writer, data_availability_checker, put_log>>
    /\ UNCHANGED gossipLockVars
    /\ UNCHANGED nonGossipVars

(* Verify if the corresponding block for this blob has been received.      *)
(* fork_choice_read_lock() waits for a writer to leave, however long.      *)
CheckBlockKnown(t) ==
    /\ call[t].pc = "block"
    /\ ~fork_choice_writer
    /\ LET block_root == Sidecar(t).block_root
           block_opt == IF block_root \in fork_choice \/ block_root \in early_attester_cache
                        THEN Some(block_root) ELSE None
       IN
       IF block_opt = None
       THEN call' = [call EXCEPT ![t].pc = "done",
                                 ![t].checked = Checked(t, "block"),
                                 ![t].result = Some(Err("UnknownHeadBlock"))]
       ELSE call' = [call EXCEPT ![t].pc = "done",
                                 ![t].checked = Checked(t, "block"),
                                 ![t].result =
                                     Some(Ok([all_blobs_available |->
                                                 Unwrap(call[t].all_blobs_available),
                                              block_root |-> block_root]))]
    /\ UNCHANGED <<slot_clock, finalized_epoch, fork_choice, early_attester_cache,
                   pubkey_cache_writer, data_availability_checker, put_log>>
    /\ UNCHANGED gossipLockVars
    /\ UNCHANGED nonGossipVars

(* The caller takes the result. *)
Return(t) ==
    /\ call[t].pc = "done"
    /\ call' = [call EXCEPT ![t] = IdleCall]
    /\ put_log' = [put_log EXCEPT ![t] = <<>>]
    /\ UNCHANGED <<slot_clock, finalized_epoch, fork_choice, early_attester_cache,
                   pubkey_cache_writer, data_availability_checker>>
    /\ UNCHANGED gossipLockVars
    /\ UNCHANGED nonGossipVars

validate_blob_sidecar_for_gossip(t) ==
    \/ CheckSubnet(t)
    \/ CheckFutureSlot(t)
    \/ CheckFinalizedSlot(t)
    \/ CheckProposer(t)
    \/ CheckSignature(t)
    \/ SubmitToCache(t)
    \/ CheckBlockKnown(t)

(***************************************************************************)
(* The rest of the node, acting between the steps of a call.               *)
(***************************************************************************)
Tick ==
    /\ IF slot_clock = None
       THEN slot_clock' = Some(0)
       ELSE /\ Unwrap(slot_clock) < MaxTime
            /\ slot_clock' = Some(Unwrap(slot_clock) + 1)
    /\ UNCHANGED <<finalized_epoch, fork_choice, early_attester_cache,
                   pubkey_cache_writer, data_availability_checker, put_log, call>>
    /\ UNCHANGED gossipLockVars
    /\ UNCHANGED nonGossipVars

(* The chain finalizes an epoch that has started. *)
Finalize ==
    /\ finalized_epoch < MaxFinalizedEpoch
    /\ slot_clock # None
    /\ start_slot(finalized_epoch + 1) <= Unwrap(slot_clock) \div TicksPerSlot
    /\ finalized_epoch' = finalized_epoch + 1
    /\ UNCHANGED <<slot_clock, fork_choice, early_attester_cache,
                   pubkey_cache_writer, data_availability_checker, put_log, call>>
    /\ UNCHANGED gossipLockVars
    /\ UNCHANGED nonGossipVars

EarlyAttesterCacheAdd ==
    /\ \E r \in BlockRoots \ (fork_choice \cup early_attester_cache) :
          early_attester_cache' = early_attester_cache \cup {r}
    /\ UNCHANGED <<slot_clock, finalized_epoch, fork_choice,
                   pubkey_cache_writer, data_availability_checker, put_log, call>>
    /\ UNCHANGED gossipLockVars
    /\ UNCHANGED nonGossipVars

ImportBlock ==
    /\ \E r \in BlockRoots \ fork_choice : fork_choice' = fork_choice \cup {r}
    /\ UNCHANGED <<slot_clock, finalized_epoch, early_attester_cache,
                   pubkey_cache_writer, data_availability_checker, put_log, call>>
    /\ UNCHANGED gossipLockVars
    /\ UNCHANGED nonGossipVars

PubkeyCacheWriter ==
    /\ pubkey_cache_writer' = ~pubkey_cache_writer
    /\ UNCHANGED <<slot_clock, finalized_epoch, fork_choice, early_attester_cache,
                   data_availability_checker, put_log, call>>
    /\ UNCHANGED gossipLockVars
    /\ UNCHANGED nonGossipVars

(* Another task takes or leaves the proposer cache mutex. *)
BeaconProposerCacheHolder ==
    /\ beacon_proposer_cache_held' = ~beacon_proposer_cache_held
    /\ UNCHANGED <<slot_clock, finalized_epoch, fork_choice, early_attester_cache,
                   pubkey_cache_writer, data_availability_checker, put_log, call,
                   gossip_peers, fork_choice_writer>>
    /\ UNCHANGED nonGossipVars

(* A writer takes or leaves the fork-choice lock. *)
ForkChoiceWriter ==
    /\ fork_choice_writer' = ~fork_choice_writer
    /\ UNCHANGED <<slot_clock, finalized_epoch, fork_choice, early_attester_cache,
                   pubkey_cache_writer, data_availability_checker, put_log, call,
                   gossip_peers, beacon_proposer_cache_held>>
    /\ UNCHANGED nonGossipVars

GossipTasks == {1}

(* Each part of the node before it has done anything. *)
GossipFresh ==
    /\ slot_clock = None
    /\ finalized_epoch = 0
    /\ fork_choice = {}
    /\ early_attester_cache = {}
    /\ pubkey_cache_writer = FALSE
    /\ put_log = [t \in GossipTasks |-> <<>>]
    /\ call = [t \in GossipTasks |-> IdleCall]
    /\ gossip_peers = "any"
    /\ beacon_proposer_cache_held = FALSE
    /\ fork_choice_writer = FALSE

AggFresh ==
    /\ store = EmptyStore
    /\ last = NoCall
    /\ returned = None
    /\ agg_call = [t \in AggTasks |-> IdleAggCall]
    /\ self_borrow = None

VerifyFresh == verify_call = IdleVerifyCall

KzgFresh == kzg_call = IdleKzgCall

EngineFresh == engine = State_default

WrapperFresh ==
    /\ wrappers = [i \in Places |-> None]
    /\ available_blocks = {}
    /\ arcs = {}
    /\ reached_available = {}
    /\ wrapper_op = "none"

InitGossip ==
    /\ VerifyFresh
    /\ KzgFresh
    /\ EngineFresh
    /\ GossipFresh
    /\ data_availability_checker \in
          {None, Some([r \in BlockRoots |-> {}])}
    /\ AggFresh
    /\ attesters = "any"
    /\ WrapperFresh

NextGossip ==
    \/ \E t \in Tasks : Start(t)
    \/ \E t \in Tasks : validate_blob_sidecar_for_gossip(t)
    \/ \E t \in Tasks : Return(t)
    \/ Tick
    \/ Finalize
    \/ EarlyAttesterCacheAdd
    \/ ImportBlock
    \/ PubkeyCacheWriter
    \/ BeaconProposerCacheHolder
    \/ ForkChoiceWriter

SpecGossip == InitGossip /\ [][NextGossip]_vars

(* Concurrent calls: one task per sidecar of the proposer's block, each     *)
(* making one call, once the slot of the block has come.                   *)
PairTasks == 1..MaxBlobIndex

InitPair ==
    /\ VerifyFresh
    /\ KzgFresh
    /\ EngineFresh
    /\ slot_clock = Some(MaxTime)
    /\ finalized_epoch = 0
    /\ fork_choice = {}
    /\ early_attester_cache = {}
    /\ pubkey_cache_writer = FALSE
    /\ data_availability_checker = Some([r \in BlockRoots |-> {}])
    /\ put_log = [t \in PairTasks |-> <<>>]
    /\ call = [t \in PairTasks |-> IdleCall]
    /\ gossip_peers = "proposer"
    /\ beacon_proposer_cache_held = FALSE
    /\ fork_choice_writer = FALSE
    /\ AggFresh
    /\ attesters = "any"
    /\ WrapperFresh

NextPair ==
    \/ \E t \in Tasks : Start(t)
    \/ \E t \in Tasks : validate_blob_sidecar_for_gossip(t)
    \/ ImportBlock

SpecPair == InitPair /\ [][NextPair]_vars

(* The checks up to the proposer resolution, made at one moment of the      *)
(* chain: the clock and the finalized checkpoint stay as they are while the *)
(* call runs.  The clock of the node is read whatever it shows: unset, or   *)
(* behind the chain the node has stored.                                    *)
InitEarlyChecks ==
    /\ VerifyFresh
    /\ KzgFresh
    /\ EngineFresh
    /\ slot_clock \in {None} \cup {Some(n) : n \in 0..MaxTime}
    /\ finalized_epoch \in 0..MaxFinalizedEpoch
    /\ fork_choice = {}
    /\ early_attester_cache = {}
    /\ pubkey_cache_writer = FALSE
    /\ data_availability_checker = None
    /\ put_log = [t \in GossipTasks |-> <<>>]
    /\ call = [t \in GossipTasks |-> IdleCall]
    /\ gossip_peers = "any"
    /\ beacon_proposer_cache_held = FALSE
    /\ fork_choice_writer = FALSE
    /\ AggFresh
    /\ attesters = "any"
    /\ WrapperFresh

NextEarlyChecks ==
    \/ \E t \in Tasks : Start(t)
    \/ \E t \in Tasks : CheckSubnet(t)
    \/ \E t \in Tasks : CheckFutureSlot(t)
    \/ \E t \in Tasks : CheckFinalizedSlot(t)
    \/ \E t \in Tasks : CheckProposer(t)

SpecEarlyChecks == InitEarlyChecks /\ [][NextEarlyChecks]_vars

(* One call at a time while the slot of the proposer's block is the        *)
(* current one, with the locks the call holds between its steps.           *)
InitLocks ==
    /\ VerifyFresh
    /\ KzgFresh
    /\ EngineFresh
    /\ slot_clock = Some(MaxTime)
    /\ finalized_epoch = 0
    /\ fork_choice = {}
    /\ early_attester_cache = {}
    /\ pubkey_cache_writer = FALSE
    /\ data_availability_checker = Some([r \in BlockRoots |-> {}])
    /\ put_log = [t \in GossipTasks |-> <<>>]
    /\ call = [t \in GossipTasks |-> IdleCall]
    /\ gossip_peers = "any"
    /\ beacon_proposer_cache_held = FALSE
    /\ fork_choice_writer = FALSE
    /\ AggFresh
    /\ attesters = "any"
    /\ WrapperFresh

NextLocks ==
    \/ \E t \in Tasks : Start(t)
    \/ \E t \in Tasks : CheckSubnet(t)
    \/ \E t \in Tasks : CheckFutureSlot(t)
    \/ \E t \in Tasks : CheckFinalizedSlot(t)
    \/ \E t \in Tasks : LockProposerCache(t)
    \/ \E t \in Tasks : MatchProposerCache(t)
    \/ \E t \in Tasks : ReadHeadState(t)
    \/ \E t \in Tasks : CompareProposerIndex(t)
    \/ \E t \in Tasks : CheckSignature(t)
    \/ \E t \in Tasks : SubmitToCache(t)
    \/ \E t \in Tasks : CheckBlockKnown(t)
    \/ \E t \in Tasks : Return(t)
    \/ PubkeyCacheWriter

SpecLocks == InitLocks /\ [][NextLocks]_vars

InitAgg ==
    /\ VerifyFresh
    /\ KzgFresh
    /\ EngineFresh
    /\ AggFresh
    /\ attesters = "any"
    /\ GossipFresh
    /\ data_availability_checker = None
    /\ WrapperFresh

NextAgg ==
    \/ ProcessFreeAttestation

SpecAgg == InitAgg /\ [][NextAgg]_vars

InitAggTasks ==
    /\ VerifyFresh
    /\ KzgFresh
    /\ EngineFresh
    /\ AggFresh
    /\ attesters = "any"
    /\ GossipFresh
    /\ data_availability_checker = None
    /\ WrapperFresh

NextAggTasks ==
    \/ \E t \in AggTasks : EnterProcess(t)
    \/ \E t \in AggTasks : ResolveDuties(t)
    \/ \E t \in AggTasks : VerifySignature(t)
    \/ \E t \in AggTasks : LookupStore(t)
    \/ \E t \in AggTasks : MutateStore(t)

SpecAggTasks == InitAggTasks /\ [][NextAggTasks]_vars

InitAggRead ==
    /\ VerifyFresh
    /\ KzgFresh
    /\ EngineFresh
    /\ AggFresh
    /\ attesters = "committee"
    /\ GossipFresh
    /\ data_availability_checker = None
    /\ WrapperFresh

NextAggRead ==
    \/ ProcessFreeAttestation
    \/ GetAttestationsForState

SpecAggRead == InitAggRead /\ [][NextAggRead]_vars

InitWrapper ==
    /\ VerifyFresh
    /\ KzgFresh
    /\ EngineFresh
    /\ WrapperFresh
    /\ GossipFresh
    /\ data_availability_checker = None
    /\ AggFresh
    /\ attesters = "any"

NextWrapper ==
    \/ MakeAvailableBlock
    \/ FromSignedBeaconBlock
    \/ FromArc
    \/ FromAvailableBlock
    \/ into_available_block
    \/ block_cloned
    \/ clone

SpecWrapper == InitWrapper /\ [][NextWrapper]_vars

InitVerify ==
    /\ VerifyFresh
    /\ KzgFresh
    /\ EngineFresh
    /\ GossipFresh
    /\ data_availability_checker = None
    /\ AggFresh
    /\ attesters = "any"
    /\ WrapperFresh

NextVerify ==
    \/ StartVerify
    \/ CheckTransactions
    \/ CheckTrustedSetup
    \/ ValidateBlobs
    \/ ReturnVerify

SpecVerify == InitVerify /\ [][NextVerify]_vars

InitKzg ==
    /\ VerifyFresh
    /\ KzgFresh
    /\ EngineFresh
    /\ GossipFresh
    /\ data_availability_checker = None
    /\ AggFresh
    /\ attesters = "any"
    /\ WrapperFresh

NextKzg ==
    \/ ValidateBlob
    \/ ValidateBlobsBatch
    \/ ComputeBlobKzgProof
    \/ BlobToKzgCommitment
    \/ ComputeKzgProof
    \/ VerifyKzgProof
    \/ KzgCalledAgain
    \/ KzgReturn

SpecKzg == InitKzg /\ [][NextKzg]_vars

InitEngine ==
    /\ VerifyFresh
    /\ KzgFresh
    /\ EngineFresh
    /\ GossipFresh
    /\ data_availability_checker = None
    /\ AggFresh
    /\ attesters = "any"
    /\ WrapperFresh

NextEngine ==
    \/ \E new_state \in EngineStates : State_update(new_state)
    \/ State_watch
    \/ \E i \in 1..MaxWatchers : WatcherNext(i)

SpecEngine == InitEngine /\ [][NextEngine]_vars

(* The wrappers with the promotion of the IntoAvailableBlock trait. *)
NextPromote ==
    \/ MakeAvailableBlock
    \/ FromSignedBeaconBlock
    \/ FromArc
    \/ FromAvailableBlock
    \/ into_available_block
    \/ IntoAvailableBlock_into_available_block
    \/ block_cloned
    \/ clone

SpecPromote == InitWrapper /\ [][NextPromote]_vars

(***************************************************************************)
(* Properties of validate_blob_sidecar_for_gossip.                         *)
(***************************************************************************)
GossipCheckOrder ==
    <<"subnet", "future_slot", "finalized_slot", "proposer", "signature",
      "cache", "block">>

ErrorsOfCheck(c) ==
    CASE c = "subnet" -> {"InvalidSubnet"}
      [] c = "future_slot" -> {"UnableToReadSlot", "FutureSlot"}
      [] c = "finalized_slot" -> {"PastFinalizedSlot"}
      [] c = "proposer" -> {"BeaconStateError", "ProposerIndexMismatch"}
      [] c = "signature" -> {"ValidatorPubkeyCacheLockTimeout", "UnknownValidator",
                             "ProposerSignatureInvalid"}
      [] c = "cache" -> {"BlobCacheError"}
      [] c = "block" -> {"UnknownHeadBlock"}

(* The proposer index the contract resolves: the proposer cache keyed by the *)
(* parent root first, the head state otherwise.                              *)
ContractProposerIndex(sidecar) ==
    LET cached == proposer_cache_get_slot(sidecar.block_parent_root, sidecar.slot) IN
    IF cached # None THEN Unwrap(cached).index
    ELSE head_state_proposer_index(sidecar.slot)

(* Check c of the contract holds for the call of t in the current chain. *)
ContractCheckHolds(t, c) ==
    LET sidecar == Sidecar(t) IN
    CASE c = "subnet" -> sidecar.index = Unwrap(call[t].subnet)
      [] c = "future_slot" ->
            /\ slot_clock # None
            /\ sidecar.slot <=
                  (Unwrap(slot_clock) + MAXIMUM_GOSSIP_CLOCK_DISPARITY) \div TicksPerSlot
      [] c = "finalized_slot" -> sidecar.slot > finalized_epoch * SlotsPerEpoch
      [] c = "proposer" -> ContractProposerIndex(sidecar) = sidecar.proposer_index
      [] c = "signature" ->
            /\ call[t].proposer # None
            /\ LET proposer == Unwrap(call[t].proposer) IN
               /\ proposer.index = sidecar.proposer_index
               /\ pubkey_cache_get(proposer.index) # None
               /\ verify_signature(sidecar, Unwrap(pubkey_cache_get(proposer.index)),
                                   proposer.fork)
      [] c = "cache" -> data_availability_checker # None
      [] c = "block" -> sidecar.block_root \in fork_choice \cup early_attester_cache

(* The step evaluates a check of the call of t. *)
Evaluates(t) ==
    /\ call[t].pc \notin {"idle", "done"}
    /\ call'[t] # call[t]

Returned(t) == call[t].pc = "done" /\ call[t].result # None
ReturnedErr(t, e) == Returned(t) /\ Unwrap(call[t].result) = Err(e)
ReturnedOk(t) == Returned(t) /\ Unwrap(call[t].result).kind = "Ok"

(* C1: the checks are evaluated in the order subnet, future slot, finalized *)
(* slot, proposer index, proposer signature, cache submit, block known; an  *)
(* error returned is an error of the check evaluated last; a check that     *)
(* fails in the chain as it is when the check is evaluated ends the call    *)
(* with that check's error; a sidecar on the wrong subnet returns           *)
(* InvalidSubnet whatever else is wrong with it.                            *)
C1_Step(t) ==
    Evaluates(t) =>
        LET k == Len(call[t].checked) + 1
            c == GossipCheckOrder[k]
            res == call'[t].result
        IN
        /\ k <= Len(GossipCheckOrder)
        /\ call'[t].checked = Append(call[t].checked, c)
        /\ (res # None /\ Unwrap(res).kind = "Err") =>
               Unwrap(res).error \in ErrorsOfCheck(c)
        /\ ~ContractCheckHolds(t, c) =>
               /\ call'[t].pc = "done"
               /\ res # None
               /\ Unwrap(res).kind = "Err" \/ (c = "cache" /\ Unwrap(res) = Panic)
        /\ Sidecar(t).index # Unwrap(call[t].subnet) =>
               res = Some(Err("InvalidSubnet"))

C1_ChecksInFixedOrder == [][\A t \in Tasks : C1_Step(t)]_vars

C1_Witness ==
    \E t \in Tasks :
        /\ ReturnedErr(t, "InvalidSubnet")
        /\ Sidecar(t).index # Unwrap(call[t].subnet)
        /\ Sidecar(t).block_root \notin fork_choice \cup early_attester_cache
        /\ Sidecar(t).slot > start_slot(finalized_epoch)
        /\ call[t].checked = <<"subnet">>

(* C2: Ok is returned only after all seven checks were evaluated and each   *)
(* held in the chain as it was when the check was evaluated; the value has  *)
(* the all_blobs_available the cache returned for this submission and the   *)
(* sidecar's block_root.                                                    *)
C2_Step(t) ==
    /\ (Evaluates(t) /\ (call'[t].result = None \/ Unwrap(call'[t].result).kind = "Ok")) =>
          /\ ContractCheckHolds(t, GossipCheckOrder[Len(call[t].checked) + 1])
          /\ call[t].pc = "cache" =>
                /\ Len(put_log'[t]) = 1
                /\ put_log'[t][1].kind = "Ok"
    /\ (call'[t].result # None /\ Unwrap(call'[t].result).kind = "Ok") =>
          /\ call'[t].checked = GossipCheckOrder
          /\ Len(put_log'[t]) = 1
          /\ put_log'[t][1].kind = "Ok"
          /\ Unwrap(call'[t].result).value =
                [all_blobs_available |-> put_log'[t][1].value,
                 block_root |-> Unwrap(call'[t].signed_blob_sidecar).block_root]

C2_OkOnlyIfAllChecksHeld == [][\A t \in Tasks : C2_Step(t)]_vars

C2_Witness ==
    \E t \in Tasks :
        /\ ReturnedOk(t)
        /\ Unwrap(call[t].result).value.all_blobs_available
        /\ Sidecar(t).block_parent_root = "p2"

(* C10: a call that fails at a check before the cache submission has not    *)
(* called the availability cache, and no step of such a call changes the    *)
(* cache; when the finalized-slot check is evaluated for a sidecar whose    *)
(* slot equals the finalized slot the call returns PastFinalizedSlot.       *)
ErrorsBeforeCache ==
    UNION {ErrorsOfCheck(GossipCheckOrder[k]) : k \in 1..5}

C10_Step(t) ==
    /\ (call'[t].result # None /\ Unwrap(call'[t].result).kind = "Err"
          /\ Unwrap(call'[t].result).error \in ErrorsBeforeCache) =>
          /\ put_log'[t] = <<>>
          /\ data_availability_checker' = data_availability_checker
    /\ (Evaluates(t) /\ call[t].pc \notin {"cache"}) =>
          data_availability_checker' = data_availability_checker
    /\ (Evaluates(t) /\ call[t].pc = "finalized_slot"
          /\ Sidecar(t).slot = start_slot(finalized_epoch)) =>
          /\ call'[t].result = Some(Err("PastFinalizedSlot"))
          /\ data_availability_checker' = data_availability_checker

C10_CacheUntouchedBeforeSubmit == [][\A t \in Tasks : C10_Step(t)]_vars

C10_Witness ==
    \E t \in Tasks :
        /\ ReturnedErr(t, "PastFinalizedSlot")
        /\ Sidecar(t).index = 2
        /\ Unwrap(call[t].subnet) = 2
        /\ Sidecar(t).slot = start_slot(finalized_epoch)
        /\ put_log[t] = <<>>
        /\ data_availability_checker # None
        /\ Unwrap(data_availability_checker)[Sidecar(t).block_root] = {1}

(* C11: UnknownHeadBlock is returned exactly by the block-known check, the  *)
(* seventh, evaluated after the six checks before it passed, when the       *)
(* block root is in neither the fork-choice view nor the early-attester     *)
(* cache; the cache then has accepted and recorded the sidecar.             *)
C11_Step(t) ==
    Evaluates(t) =>
        LET root == Sidecar(t).block_root
            unknown == root \notin fork_choice \cup early_attester_cache
        IN
        /\ call'[t].result = Some(Err("UnknownHeadBlock")) =>
              /\ call[t].checked = SubSeq(GossipCheckOrder, 1, 6)
              /\ unknown
              /\ Len(put_log'[t]) = 1
              /\ put_log'[t][1].kind = "Ok"
              /\ data_availability_checker' # None
              /\ Sidecar(t).index \in Unwrap(data_availability_checker')[root]
        /\ (call[t].checked = SubSeq(GossipCheckOrder, 1, 6) /\ unknown) =>
              call'[t].result = Some(Err("UnknownHeadBlock"))

C11_UnknownHeadBlockLast == [][\A t \in Tasks : C11_Step(t)]_vars

C11_Witness ==
    \E t \in Tasks :
        /\ ReturnedErr(t, "UnknownHeadBlock")
        /\ call[t].checked = GossipCheckOrder
        /\ put_log[t] = <<Ok(FALSE)>>
        /\ Unwrap(data_availability_checker)[Sidecar(t).block_root] = {Sidecar(t).index}

(* C12: a running call is never blocked: whatever locks other tasks hold,   *)
(* it can take its next step (and return a lock-timeout error).             *)
C12_NeverBlocks ==
    \A t \in Tasks :
        call[t].pc \notin {"idle", "done"} =>
            ENABLED validate_blob_sidecar_for_gossip(t)

(* C13: concurrent submissions for one block root.  A submission the cache  *)
(* accepts adds exactly its index to what the cache held and returns        *)
(* whether the set is complete with it; the call returns that value.  Among *)
(* calls that submitted different sidecars of the block, at most one        *)
(* returns all_blobs_available, and one does once they have submitted all   *)
(* sidecars of the block.                                                   *)
Submitted == {t \in Tasks : call[t].all_blobs_available # None}

C13_Step(t) ==
    put_log'[t] # put_log[t] =>
        LET root == Sidecar(t).block_root
            before == Unwrap(data_availability_checker)
            after == Unwrap(data_availability_checker')
            out == put_log'[t][Len(put_log'[t])]
        IN
        /\ put_log'[t] = Append(put_log[t], out)
        /\ \A r \in BlockRoots \ {root} : after[r] = before[r]
        /\ IF out.kind = "Ok"
           THEN /\ after[root] = before[root] \cup {Sidecar(t).index}
                /\ out.value = (after[root] = BlobIndexes)
                /\ call'[t].all_blobs_available = Some(out.value)
           ELSE after[root] = before[root]

C13_State ==
    /\ \A t \in Tasks :
          ReturnedOk(t) =>
              Unwrap(call[t].result).value.all_blobs_available =
                  Unwrap(call[t].all_blobs_available)
    /\ (\A t1, t2 \in Submitted :
            /\ Sidecar(t1).block_root = Sidecar(t2).block_root
            /\ t1 # t2 => Sidecar(t1).index # Sidecar(t2).index) =>
          /\ Cardinality({t \in Submitted :
                              Unwrap(call[t].all_blobs_available)}) <= 1
          /\ (\E t \in Submitted : Unwrap(call[t].all_blobs_available)) <=>
                {Sidecar(t).index : t \in Submitted} = BlobIndexes

LatestPermissibleSlot ==
    (Unwrap(slot_clock) + MAXIMUM_GOSSIP_CLOCK_DISPARITY) \div TicksPerSlot

FinalizedSlot == finalized_epoch * SlotsPerEpoch

(* The call of t was made on the right subnet and is through checks 2 and 3, *)
(* or has failed at one of them.                                             *)
WindowSettled(t) ==
    /\ call[t].signed_blob_sidecar # None
    /\ Sidecar(t).index = Unwrap(call[t].subnet)
    /\ call[t].pc = "done" \/ Len(call[t].checked) >= 3

PassedWindow(t) ==
    /\ Len(call[t].checked) >= 3
    /\ call[t].pc = "done" => Len(call[t].checked) > 3

(* C21: with the clock and the finalized checkpoint as they are, a sidecar  *)
(* on the right subnet passes checks 2 and 3 exactly when finalized_slot <  *)
(* slot <= latest permissible slot; below or at the finalized slot it fails *)
(* with PastFinalizedSlot, beyond the latest permissible slot with          *)
(* FutureSlot, also when it is at or below the finalized slot as well; an   *)
(* unreadable clock passes nothing.                                         *)
C21_SlotWindowExact ==
    \A t \in Tasks :
        WindowSettled(t) =>
            IF slot_clock = None THEN ~PassedWindow(t)
            ELSE LET slot == Sidecar(t).slot IN
                 /\ PassedWindow(t) <=>
                        (FinalizedSlot < slot /\ slot <= LatestPermissibleSlot)
                 /\ slot = LatestPermissibleSlot =>
                        ~ReturnedErr(t, "FutureSlot")
                 /\ (slot <= FinalizedSlot /\ slot <= LatestPermissibleSlot) =>
                        ReturnedErr(t, "PastFinalizedSlot")
                 /\ slot > LatestPermissibleSlot => ReturnedErr(t, "FutureSlot")

C21_Witness ==
    \E t \in Tasks :
        /\ WindowSettled(t)
        /\ PassedWindow(t)
        /\ slot_clock # None
        /\ Sidecar(t).slot = LatestPermissibleSlot
        /\ Sidecar(t).slot = FinalizedSlot + 1

(* C22: once the proposer check is evaluated, the proposer the call holds  *)
(* is the entry of the proposer cache for the parent root and the slot when *)
(* there is one, and no error of the head state is returned then; without   *)
(* an entry it is the proposer and the fork of the head state, or the call  *)
(* returns the error of the head state; ProposerIndexMismatch is returned   *)
(* exactly when the index resolved differs from the index of the sidecar.   *)
C22_ProposerCachePreferred ==
    \A t \in Tasks :
        Len(call[t].checked) >= 4 =>
            LET sidecar == Sidecar(t)
                cached == proposer_cache_get_slot(sidecar.block_parent_root, sidecar.slot)
            IN
            /\ cached # None =>
                  /\ call[t].proposer = cached
                  /\ ~ReturnedErr(t, "BeaconStateError")
            /\ cached = None =>
                  \/ ReturnedErr(t, "BeaconStateError") /\ call[t].proposer = None
                  \/ call[t].proposer =
                        Some([index |-> head_state_proposer_index(sidecar.slot),
                              fork |-> head_state_fork])
            /\ ReturnedErr(t, "ProposerIndexMismatch") <=>
                  /\ call[t].proposer # None
                  /\ Unwrap(call[t].proposer).index # sidecar.proposer_index
            /\ (call[t].proposer # None
                   /\ Unwrap(call[t].proposer).index = sidecar.proposer_index) =>
                  call[t].pc # "done"

C22_Witness ==
    \E t \in Tasks :
        /\ call[t].pc = "signature"
        /\ proposer_cache_get_slot(Sidecar(t).block_parent_root, Sidecar(t).slot) # None
        /\ Sidecar(t).proposer_index # head_state_proposer_index(Sidecar(t).slot)
        /\ Unwrap(call[t].proposer).fork # head_state_fork

(***************************************************************************)
(* Properties of verify_data_availability.                                 *)
(***************************************************************************)
(* The commitments of the blob transactions, in order, are the commitments *)
(* of the block, in count and in value.                                    *)
RECURSIVE CommitmentHashesOf(_)
CommitmentHashesOf(transactions) ==
    IF Len(transactions) = 0 THEN <<>>
    ELSE LET tx == transactions[Len(transactions)] IN
         CommitmentHashesOf(SubSeq(transactions, 1, Len(transactions) - 1))
         \o (IF tx.blob THEN tx.versioned_hashes ELSE <<>>)

CommitmentsMatch(c) ==
    CommitmentHashesOf(c.transactions) =
        [k \in DOMAIN c.kzg_commitments |-> <<"versioned", c.kzg_commitments[k]>>]

(* C27: a call past the transactions check whose commitments differ from   *)
(* those of the transactions has returned TransactionCommitmentMismatch,    *)
(* with or without a trusted setup; a call past the trusted-setup check     *)
(* whose commitments match and that has no trusted setup has returned       *)
(* TrustedSetupNotInitialized; neither has verified a KZG proof.           *)
C27_TransactionsBeforeTrustedSetup ==
    LET c == verify_call IN
    /\ (c.pc \notin {"idle", "transactions"} /\ ~CommitmentsMatch(c)) =>
          /\ c.pc = "done"
          /\ c.result = Some(Err("TransactionCommitmentMismatch"))
          /\ ~c.kzg_verified
    /\ (c.pc \notin {"idle", "transactions", "kzg"}
           /\ CommitmentsMatch(c) /\ c.kzg = None) =>
          /\ c.pc = "done"
          /\ c.result = Some(Err("TrustedSetupNotInitialized"))
          /\ ~c.kzg_verified
    /\ c.result = Some(Err("TransactionCommitmentMismatch")) => ~CommitmentsMatch(c)
    /\ c.result = Some(Err("TrustedSetupNotInitialized")) =>
          CommitmentsMatch(c) /\ c.kzg = None

C27_Witness ==
    /\ verify_call.pc = "done"
    /\ verify_call.result = Some(Err("TransactionCommitmentMismatch"))
    /\ verify_call.kzg = None
    /\ Len(verify_call.kzg_commitments) = Len(CommitmentHashesOf(verify_call.transactions))
    /\ Len(verify_call.kzg_commitments) = 2

(* C28: a call whose commitments match and that has a trusted setup         *)
(* returns a value: Ok when every blob verifies, InvalidKzgProof when one   *)
(* does not, KzgError when the library fails.                              *)
C28_BatchVerifyReturnsValue ==
    LET c == verify_call IN
    (c.pc = "done" /\ CommitmentsMatch(c) /\ c.kzg # None) =>
        LET verified == validate_blobs(Unwrap(c.kzg), c.kzg_commitments, c.blob_sidecar,
                                       [k \in DOMAIN c.blob_sidecar |-> "wellformed"]) IN
        c.result = Some(IF verified.kind = "Err" THEN Err("KzgError")
                        ELSE IF verified.value THEN Ok("unit")
                        ELSE Err("InvalidKzgProof"))

(***************************************************************************)
(* Properties of the attestation aggregator.                               *)
(***************************************************************************)
BuiltState == [epoch_cache |-> "Built"]

(* The committee assignment of a validator, read off the committees. *)
HasDuty(v) ==
    \E n \in 1..Len(CrosslinkCommittees) :
        \E k \in 1..Len(CrosslinkCommittees[n].committee) :
            CrosslinkCommittees[n].committee[k] = v

Duties ==
    [v \in {w \in ValidatorIndexes : HasDuty(w)} |->
        CHOOSE d \in [slot : {10, 11}, shard : {2, 3}, position : 0..CommitteeSize] :
            \E n \in 1..Len(CrosslinkCommittees) :
                /\ CrosslinkCommittees[n].slot = d.slot
                /\ CrosslinkCommittees[n].shard = d.shard
                /\ d.position < Len(CrosslinkCommittees[n].committee)
                /\ CrosslinkCommittees[n].committee[d.position + 1] = v]

DutyOf(v) == Duties[v]

(* The committee of the data, positions counted from 0. *)
CommitteeFor(data) ==
    (CHOOSE c \in {CrosslinkCommittees[n] : n \in 1..Len(CrosslinkCommittees)} :
        c.slot = data.slot /\ c.shard = data.shard).committee

KeyOf(data) == signable_message(data, FALSE)

(* Bit i of the aggregation bitfield, as the aggregator reads it. *)
BitSet(attestation, i) ==
    /\ i < Len(attestation.aggregation_bitfield)
    /\ attestation.aggregation_bitfield[i + 1]

SetBits(attestation) ==
    {i \in 0..(Len(attestation.aggregation_bitfield) - 1) : BitSet(attestation, i)}

(* The bitfield over the n positions of the committee. *)
CommitteeBits(attestation, n) ==
    [k \in 1..n |-> IF BitSet(attestation, k - 1) THEN 1 ELSE 0]

(* The free attestation validator v rightly sends for data. *)
FreeAttestationOf(v, data) ==
    [validator_index |-> v, data |-> data,
     signature |-> Sign(validator_registry[v].pubkey, KeyOf(data))]

(* It passes the duty and the signature checks of the contract. *)
PassesChecks(fa) ==
    /\ HasDuty(fa.validator_index)
    /\ fa.data.slot = DutyOf(fa.validator_index).slot
    /\ fa.data.shard = DutyOf(fa.validator_index).shard
    /\ fa.signature = Sign(validator_registry[fa.validator_index].pubkey, KeyOf(fa.data))

BitAlreadySet(st, fa) ==
    /\ HasDuty(fa.validator_index)
    /\ KeyOf(fa.data) \in DOMAIN st
    /\ BitSet(st[KeyOf(fa.data)], DutyOf(fa.validator_index).position)

OutcomeOk(message) == Ok([valid |-> TRUE, message |-> message])
OutcomeInvalid(message) == Ok([valid |-> FALSE, message |-> message])

(* C3: from every store, a free attestation that passes the checks gives   *)
(* NewAttestationCreated or Aggregated when its bit is not yet set, and     *)
(* processing it again gives AggregationNotRequired and leaves the store as *)
(* the first call left it; a call whose bit is already set leaves the store *)
(* unchanged.                                                               *)
C3_AggregationIdempotent ==
    \A fa \in FreeAttestations :
        LET r1 == process_free_attestation(store, BuiltState, fa)
            r2 == process_free_attestation(r1.store, BuiltState, fa)
        IN
        /\ PassesChecks(fa) =>
              /\ r1.result \in {OutcomeOk("NewAttestationCreated"),
                                OutcomeOk("Aggregated"),
                                OutcomeOk("AggregationNotRequired")}
              /\ ~BitAlreadySet(store, fa) =>
                    r1.result \in {OutcomeOk("NewAttestationCreated"),
                                   OutcomeOk("Aggregated")}
              /\ r2.result = OutcomeOk("AggregationNotRequired")
              /\ r2.store = r1.store
        /\ BitAlreadySet(store, fa) => r1.store = store

C3_Witness ==
    /\ last = Some(OutcomeOk("AggregationNotRequired"))
    /\ \E key \in DOMAIN store : Cardinality(SetBits(store[key])) = 1

(* C4: two distinct validators of one committee with equal data: either    *)
(* order of processing ends with the same bitfield and the same aggregate, *)
(* which holds the signature of each exactly once.                         *)
C4_AggregationCommutes ==
    \A d \in AttestationDatas, v1, v2 \in ValidatorIndexes :
        LET fa1 == FreeAttestationOf(v1, d)
            fa2 == FreeAttestationOf(v2, d)
            a == process_free_attestation(
                     process_free_attestation(store, BuiltState, fa1).store,
                     BuiltState, fa2).store
            b == process_free_attestation(
                     process_free_attestation(store, BuiltState, fa2).store,
                     BuiltState, fa1).store
            ea == a[KeyOf(d)]
            eb == b[KeyOf(d)]
        IN
        (v1 # v2 /\ PassesChecks(fa1) /\ PassesChecks(fa2)) =>
            /\ KeyOf(d) \in DOMAIN a
            /\ KeyOf(d) \in DOMAIN b
            /\ ea.aggregation_bitfield = eb.aggregation_bitfield
            /\ ea.aggregate_signature = eb.aggregate_signature
            /\ CopiesIn(fa1.signature, ea.aggregate_signature) = 1
            /\ CopiesIn(fa2.signature, ea.aggregate_signature) = 1
            /\ BitSet(ea, DutyOf(v1).position)
            /\ BitSet(ea, DutyOf(v2).position)

C4_Witness ==
    /\ last = Some(OutcomeOk("Aggregated"))
    /\ \E key \in DOMAIN store :
          /\ Cardinality(SetBits(store[key])) = 2
          /\ BagCardinality(store[key].aggregate_signature) = 2

(* C5: in every stored attestation, bit i is set exactly when the          *)
(* signature of the committee member at position i is in the aggregate,    *)
(* and it is in it once.                                                   *)
C5_BitIffSignatureFolded ==
    \A key \in DOMAIN store :
        LET attestation == store[key]
            committee == CommitteeFor(attestation.data)
        IN
        \A i \in 0..(CommitteeSize - 1) :
            LET copies ==
                    IF i < Len(committee)
                    THEN CopiesIn(Sign(validator_registry[committee[i + 1]].pubkey, key),
                                  attestation.aggregate_signature)
                    ELSE 0
            IN
            /\ BitSet(attestation, i) => copies = 1
            /\ ~BitSet(attestation, i) => copies = 0

C5_Witness ==
    \E key \in DOMAIN store :
        /\ SetBits(store[key]) = {0, 2}
        /\ BagCardinality(store[key].aggregate_signature) = 2

(* C6: for a free attestation that passes the checks the store decides the *)
(* outcome: no entry, NewAttestationCreated and an entry with the one bit  *)
(* of the position; bit clear, Aggregated and that bit added; bit set,     *)
(* AggregationNotRequired.  In a committee of 4, positions 1, 3, 1 give    *)
(* the bitfields 0100, 0101, 0101.                                         *)
AtPosition(i, data) == FreeAttestationOf(CommitteeFor(data)[i + 1], data)

C6_Scenario ==
    LET d == [slot |-> 10, shard |-> 2, beacon_block_root |-> "b1"]
        s1 == process_free_attestation(EmptyStore, BuiltState, AtPosition(1, d))
        s2 == process_free_attestation(s1.store, BuiltState, AtPosition(3, d))
        s3 == process_free_attestation(s2.store, BuiltState, AtPosition(1, d))
    IN
    /\ s1.result = OutcomeOk("NewAttestationCreated")
    /\ CommitteeBits(s1.store[KeyOf(d)], 4) = <<0, 1, 0, 0>>
    /\ s2.result = OutcomeOk("Aggregated")
    /\ CommitteeBits(s2.store[KeyOf(d)], 4) = <<0, 1, 0, 1>>
    /\ s3.result = OutcomeOk("AggregationNotRequired")
    /\ CommitteeBits(s3.store[KeyOf(d)], 4) = <<0, 1, 0, 1>>

C6_OutcomeDecidedByStore ==
    /\ \A fa \in FreeAttestations :
          PassesChecks(fa) =>
              LET r == process_free_attestation(store, BuiltState, fa)
                  key == KeyOf(fa.data)
                  pos == DutyOf(fa.validator_index).position
              IN
              IF key \notin DOMAIN store
              THEN /\ r.result = OutcomeOk("NewAttestationCreated")
                   /\ DOMAIN r.store = DOMAIN store \cup {key}
                   /\ SetBits(r.store[key]) = {pos}
              ELSE IF ~BitSet(store[key], pos)
              THEN /\ r.result = OutcomeOk("Aggregated")
                   /\ DOMAIN r.store = DOMAIN store
                   /\ SetBits(r.store[key]) = SetBits(store[key]) \cup {pos}
              ELSE /\ r.result = OutcomeOk("AggregationNotRequired")
                   /\ r.store = store
    /\ (store = EmptyStore /\ CommitteeSize = 4) => C6_Scenario

C6_Witness ==
    LET key == KeyOf([slot |-> 10, shard |-> 2, beacon_block_root |-> "b1"]) IN
    /\ last = Some(OutcomeOk("AggregationNotRequired"))
    /\ DOMAIN store = {key}
    /\ SetBits(store[key]) = {1, 3}

(* C7: when a duty is resolved for the validator and the slot of the data  *)
(* differs from the duty slot, the call returns the invalid outcome        *)
(* BadSlot and the store is unchanged.                                     *)
C7_BadSlotRejected ==
    \A fa \in FreeAttestations :
        (HasDuty(fa.validator_index) /\ fa.data.slot # DutyOf(fa.validator_index).slot) =>
            LET r == process_free_attestation(store, BuiltState, fa) IN
            /\ r.result = OutcomeInvalid("BadSlot")
            /\ r.store = store

C7_Witness ==
    /\ last = Some(OutcomeInvalid("BadSlot"))
    /\ store # EmptyStore

(* C8: a free attestation whose signature does not verify against the key  *)
(* of the validator at validator_index never changes the store, and gives  *)
(* BadSignature once the duty checks have passed; every signature in a     *)
(* stored aggregate is the signature, over the entry's key, of the         *)
(* committee member whose bit is set.                                      *)
C8_OnlyVerifiedSignaturesFolded ==
    /\ \A fa \in FreeAttestations :
          LET r == process_free_attestation(store, BuiltState, fa) IN
          ~verify(fa.signature, KeyOf(fa.data), validator_registry[fa.validator_index].pubkey) =>
              /\ r.store = store
              /\ r.result.kind = "Ok" /\ ~r.result.value.valid
              /\ (/\ HasDuty(fa.validator_index)
                  /\ fa.data.slot = DutyOf(fa.validator_index).slot
                  /\ fa.data.shard = DutyOf(fa.validator_index).shard) =>
                    r.result = OutcomeInvalid("BadSignature")
    /\ \A key \in DOMAIN store :
          \A sig \in BagToSet(store[key].aggregate_signature) :
              \E i \in SetBits(store[key]) :
                  /\ i < Len(CommitteeFor(store[key].data))
                  /\ verify(sig, key,
                            validator_registry[CommitteeFor(store[key].data)[i + 1]].pubkey)

C8_Witness ==
    /\ last = Some(OutcomeInvalid("BadSignature"))
    /\ \E key \in DOMAIN store : Cardinality(SetBits(store[key])) = 3

(***************************************************************************)
(* Properties of the duty resolution of process_free_attestation.          *)
(***************************************************************************)
Resolved(c) == attestation_slot_and_shard_for_validator(c[1], c[2].validator_index)

(* C19: from every store, a call whose resolver reports the epoch out of   *)
(* range returns the invalid outcome TooOld, one whose resolver reports    *)
(* the shard out of range returns BadShard, one whose validator has no     *)
(* duty returns BadValidatorIndex; each is an Ok value and leaves the      *)
(* store as it is.                                                         *)
C19_DutyFailuresAreOutcomes ==
    \A c \in ProcessCalls :
        LET r == process_free_attestation(store, c[1], c[2])
            resolved == Resolved(c)
        IN
        /\ resolved = Err("EpochOutOfBounds") =>
              r = [store |-> store,
                   result |-> [kind |-> "Ok",
                               value |-> [valid |-> FALSE, message |-> "TooOld"]]]
        /\ resolved = Err("ShardOutOfBounds") =>
              r = [store |-> store,
                   result |-> [kind |-> "Ok",
                               value |-> [valid |-> FALSE, message |-> "BadShard"]]]
        /\ (resolved.kind = "Ok" /\ resolved.value = None) =>
              r = [store |-> store,
                   result |-> [kind |-> "Ok",
                               value |-> [valid |-> FALSE,
                                          message |-> "BadValidatorIndex"]]]

C19_Witness ==
    /\ store # EmptyStore
    /\ last = Some([kind |-> "Ok", value |-> [valid |-> FALSE, message |-> "TooOld"]])

(* C20: from every store, a call with a state whose committee cache is not *)
(* built panics: it returns neither an outcome nor an error, whatever the  *)
(* store holds, and leaves the store as it is; nothing runs afterwards.    *)
C20_UnbuiltCachePanics ==
    /\ \A c \in ProcessCalls :
          c[1].epoch_cache = "EpochCacheUninitialized" =>
              process_free_attestation(store, c[1], c[2]) =
                  [store |-> store, result |-> [kind |-> "Panic"]]
    /\ last = Some([kind |-> "Panic"]) => ~ENABLED ProcessFreeAttestation

C20_Witness ==
    /\ store # EmptyStore
    /\ last = Some([kind |-> "Panic"])

(***************************************************************************)
(* Properties of concurrent process_free_attestation calls.                *)
(***************************************************************************)
AggReturned(t, message) ==
    /\ agg_call[t].pc = "done"
    /\ agg_call[t].result = Some(Ok([valid |-> TRUE, message |-> message]))

AggKey(t) ==
    signable_message(Unwrap(agg_call[t].free_attestation).data, PHASE_0_CUSTODY_BIT)

AggInside == {t \in AggTasks : agg_call[t].pc \notin {"idle", "done"}}

(* C14: at most one call is inside process_free_attestation at a time; the *)
(* entry of a key holds the bit of every validator whose call returned     *)
(* NewAttestationCreated or Aggregated; a key is in the store exactly when *)
(* one call returned NewAttestationCreated for it, and never two did.      *)
C14_NoLostUpdate ==
    /\ Cardinality(AggInside) <= 1
    /\ \A t \in AggTasks :
          (AggReturned(t, "NewAttestationCreated") \/ AggReturned(t, "Aggregated")) =>
              /\ AggKey(t) \in DOMAIN store
              /\ BitSet(store[AggKey(t)], AggDuties(t).committee_index)
    /\ \A t1, t2 \in AggTasks :
          (/\ AggReturned(t1, "NewAttestationCreated")
           /\ AggReturned(t2, "NewAttestationCreated")
           /\ AggKey(t1) = AggKey(t2)) => t1 = t2
    /\ \A key \in DOMAIN store :
          \E t \in AggTasks :
              AggReturned(t, "NewAttestationCreated") /\ AggKey(t) = key

C14_Witness ==
    /\ \A t \in AggTasks : agg_call[t].pc = "done"
    /\ Cardinality({t \in AggTasks : AggReturned(t, "NewAttestationCreated")}) = 1
    /\ Cardinality({t \in AggTasks : AggReturned(t, "Aggregated")}) = 2
    /\ \A t \in AggTasks : BitSet(store[AggKey(t)], AggDuties(t).committee_index)

(* C15: a call that is verifying the signature does not hold the exclusive *)
(* access to the store.                                                    *)
C15_VerifiesBeforeLock ==
    \A t \in AggTasks : agg_call[t].pc = "verify" => self_borrow # Some(t)

(***************************************************************************)
(* Properties of the store and of get_attestations_for_state.              *)
(***************************************************************************)
(* C16: the store is empty at creation; no call removes a key or clears a  *)
(* set bit of a stored aggregation bitfield.                               *)
C16_Step ==
    \A key \in DOMAIN store :
        /\ key \in DOMAIN store'
        /\ \A i \in 0..(Len(store[key].aggregation_bitfield) - 1) :
              BitSet(store[key], i) => BitSet(store'[key], i)

C16_StoreOnlyGrows == store = EmptyStore /\ [][C16_Step]_vars

C16_Witness ==
    /\ returned # None
    /\ Len(Unwrap(returned).attestations) > 0
    /\ Cardinality(DOMAIN store) = 3
    /\ \E key \in DOMAIN store : Cardinality(SetBits(store[key])) = 2

(* C17: the list returned holds exactly the stored attestations that pass  *)
(* validate_attestation_without_signature on the state and whose data is   *)
(* not the data of an attestation in state.latest_attestations, each once. *)
C17_Step ==
    (returned' # returned) =>
        LET state == Unwrap(returned').state
            attestations == Unwrap(returned').attestations
            listed == {attestation_of(attestations[i], store) : i \in DOMAIN attestations}
            wanted == {store[k] : k \in
                         {k \in DOMAIN store :
                             /\ store[k].data.slot < state.slot
                             /\ \A i \in DOMAIN state.latest_attestations :
                                   state.latest_attestations[i].data # store[k].data}}
        IN
        /\ listed = wanted
        /\ Len(attestations) = Cardinality(wanted)

C17_ReturnsExactlySelected == [][C17_Step]_vars

C17_Witness ==
    /\ returned # None
    /\ Cardinality(DOMAIN store) = 3
    /\ Unwrap(returned).state.slot = 11
    /\ Len(Unwrap(returned).state.latest_attestations) = 1
    /\ Len(Unwrap(returned).attestations) = 1
    /\ attestation_of(Unwrap(returned).attestations[1], store).data =
          [slot |-> 10, shard |-> 2, beacon_block_root |-> "b1"]
    /\ attestation_of(Unwrap(returned).attestations[1], store) \in
          {store[k] : k \in DOMAIN store}

(* C18: get_attestations_for_state leaves the store as it is, and a list   *)
(* it returned reads the same after later process_free_attestation calls.  *)
ReturnedAttestations(st) ==
    [i \in DOMAIN Unwrap(returned).attestations |->
        attestation_of(Unwrap(returned).attestations[i], st)]

C18_Step ==
    /\ (returned' # returned) => store' = store
    /\ (returned' = returned /\ returned # None) =>
          ReturnedAttestations(store') = ReturnedAttestations(store)

C18_ReturnsSnapshot == [][C18_Step]_vars

C18_Witness ==
    /\ returned # None
    /\ \E i \in DOMAIN Unwrap(returned).attestations :
          LET element == Unwrap(returned).attestations[i] IN
          /\ element.key \in DOMAIN store
          /\ Cardinality(SetBits(attestation_of(element, store))) = 1
          /\ Cardinality(SetBits(store[element.key])) = 2

(***************************************************************************)
(* Properties of BlockWrapper.                                             *)
(***************************************************************************)
IsPending(w) == w # None /\ Unwrap(w).variant = "AvailabilityPending"
IsAvailable(w) == w # None /\ Unwrap(w).variant = "Available"

(* C9 as claimed: once a wrapper has held a block root as Available, no    *)
(* operation builds an AvailabilityPending wrapper of that root.           *)
C9_NeverPendingAgain ==
    [][\A i \in Places :
          (IsPending(wrappers'[i]) /\ wrappers'[i] # wrappers[i]
              /\ wrapper_op' # "clone") =>
              canonical_root(Unwrap(wrappers'[i])) \notin reached_available]_vars

(* C9 amended: no operation changes the variant of a wrapper it is applied *)
(* to: into_available_block consumes the wrapper and yields the            *)
(* AvailableBlock of an Available one and nothing of a pending one,        *)
(* From<AvailableBlock> builds Available, clone copies the variant; only   *)
(* the From conversions of a block build AvailabilityPending wrappers, and *)
(* they do so also for a root that was Available before.                   *)
C9_Step ==
    /\ \A i \in Places :
          /\ IsAvailable(wrappers[i]) => wrappers'[i] \in {wrappers[i], None}
          /\ IsPending(wrappers[i]) => wrappers'[i] \in {wrappers[i], None}
          /\ (wrappers[i] # None /\ wrappers'[i] = None) =>
                /\ wrapper_op' = "into_available_block"
                /\ IsAvailable(wrappers[i]) =>
                      available_blocks' = available_blocks \cup {Unwrap(wrappers[i]).block}
                /\ IsPending(wrappers[i]) => available_blocks' = available_blocks
          /\ (IsPending(wrappers'[i]) /\ wrappers[i] = None) =>
                \/ wrapper_op' \in {"from_block", "from_arc"}
                \/ wrapper_op' = "clone" /\ \E j \in Places : wrappers[j] = wrappers'[i]
          /\ (IsAvailable(wrappers'[i]) /\ wrappers[i] = None) =>
                \/ /\ wrapper_op' = "from_available_block"
                   /\ Unwrap(wrappers'[i]).block \in available_blocks
                \/ wrapper_op' = "clone" /\ \E j \in Places : wrappers[j] = wrappers'[i]
    /\ wrapper_op' = "from_available_block" =>
          \E i \in Places : wrappers[i] = None /\ IsAvailable(wrappers'[i])

C9_VariantNeverChanges == [][C9_Step]_vars

C9_Witness ==
    /\ wrapper_op = "from_arc"
    /\ \E i, j \in Places :
          /\ IsAvailable(wrappers[i])
          /\ IsPending(wrappers[j])
          /\ canonical_root(Unwrap(wrappers[i])) = canonical_root(Unwrap(wrappers[j]))
          /\ canonical_root(Unwrap(wrappers[j])) \in reached_available

(* Every value of VerifiedBlobs an AvailableBlock of the block can hold. *)
AnyVerifiedBlobs(block) ==
    {[variant |-> "NotRequired"], [variant |-> "EmptyBlobs"], [variant |-> "PreEip4844"]}
    \cup {[variant |-> "Available", blobs |-> [k \in 1..n |-> <<block.root, k>>]] :
              n \in 0..block.kzg_commitments}

(* What the accessors of each AsBlock implementation answer for a wrapper. *)
AsBlockAnswers(w) ==
    [slot |-> AsBlock_slot(w), epoch |-> AsBlock_epoch(w),
     parent_root |-> AsBlock_parent_root(w), state_root |-> AsBlock_state_root(w),
     canonical_root |-> canonical_root(w),
     signed_block_header |-> AsBlock_signed_block_header(w),
     message |-> AsBlock_message(w), as_block |-> as_block(w),
     block_cloned |-> AsBlock_block_cloned(w)]

AsBlockRefAnswers(w) ==
    [slot |-> AsBlockRef_slot(w), epoch |-> AsBlockRef_epoch(w),
     parent_root |-> AsBlockRef_parent_root(w), state_root |-> AsBlockRef_state_root(w),
     canonical_root |-> AsBlockRef_canonical_root(w),
     signed_block_header |-> AsBlockRef_signed_block_header(w),
     message |-> AsBlockRef_message(w), as_block |-> AsBlockRef_as_block(w),
     block_cloned |-> AsBlockRef_block_cloned(w)]

(* What the block itself answers. *)
BlockAnswers(block) ==
    [slot |-> block.slot, epoch |-> block.slot \div SlotsPerEpoch,
     parent_root |-> block.parent_root, state_root |-> block.state_root,
     canonical_root |-> block.root,
     signed_block_header |->
         [slot |-> block.slot, parent_root |-> block.parent_root,
          state_root |-> block.state_root, signature |-> block.signature],
     message |->
         [slot |-> block.slot, parent_root |-> block.parent_root,
          state_root |-> block.state_root, fork |-> block.fork,
          kzg_commitments |-> block.kzg_commitments],
     as_block |-> block, block_cloned |-> block]

(* C25: for every block, the pending wrapper of the block and the          *)
(* available wrapper of it with any VerifiedBlobs value answer every        *)
(* accessor alike, with what the block answers, in both AsBlock             *)
(* implementations; so do the wrappers the node holds.                      *)
C25_AccessorsStateIndependent ==
    /\ \A block \in SignedBeaconBlocks :
          /\ AsBlockAnswers(AvailabilityPending(block)) = BlockAnswers(block)
          /\ AsBlockRefAnswers(AvailabilityPending(block)) = BlockAnswers(block)
          /\ \A blobs \in AnyVerifiedBlobs(block) :
                LET w == Available([block |-> block, blobs |-> blobs]) IN
                /\ AsBlockAnswers(w) = BlockAnswers(block)
                /\ AsBlockRefAnswers(w) = BlockAnswers(block)
    /\ \A i, j \in Places :
          (/\ wrappers[i] # None
           /\ wrappers[j] # None
           /\ as_block(Unwrap(wrappers[i])) = as_block(Unwrap(wrappers[j]))) =>
              /\ AsBlockAnswers(Unwrap(wrappers[i])) = AsBlockAnswers(Unwrap(wrappers[j]))
              /\ AsBlockRefAnswers(Unwrap(wrappers[i])) =
                    AsBlockAnswers(Unwrap(wrappers[j]))

C25_Witness ==
    \E i, j \in Places :
        /\ IsAvailable(wrappers[i])
        /\ Unwrap(wrappers[i]).block.blobs.variant = "Available"
        /\ IsPending(wrappers[j])
        /\ AsBlock_state_root(Unwrap(wrappers[i])) = AsBlock_state_root(Unwrap(wrappers[j]))
        /\ AsBlock_block_cloned(Unwrap(wrappers[j])) \in arcs

(* The AvailableBlock values the node holds, on their own or in a wrapper. *)
HeldAvailableBlocks ==
    available_blocks \cup
    {Unwrap(wrappers[i]).block : i \in {i \in Places : IsAvailable(wrappers[i])}}

(* The blobs of all commitments of the block, in their order. *)
AllBlobsOf(block) == [k \in 1..block.kzg_commitments |-> <<block.root, k>>]

CarriesAllRequired(available_block) ==
    IF available_block.blobs.variant = "Available"
    THEN /\ available_block.blobs.blobs = AllBlobsOf(available_block.block)
         /\ AvailableBlock_blobs(available_block) =
               Some(AllBlobsOf(available_block.block))
         /\ AvailableBlock_deconstruct(available_block) =
               <<available_block.block, Some(AllBlobsOf(available_block.block))>>
    ELSE /\ available_block.blobs.variant \in {"NotRequired", "EmptyBlobs", "PreEip4844"}
         /\ AvailableBlock_blobs(available_block) = None
         /\ AvailableBlock_deconstruct(available_block) = <<available_block.block, None>>

(* C26: every AvailableBlock the node holds, on its own or in an Available *)
(* wrapper, carries all blobs of its block's commitments or a variant that *)
(* states none are required; a step other than the construction of an      *)
(* AvailableBlock leaves every wrapper's AvailableBlock as it is and brings *)
(* no AvailableBlock that was not held before.                             *)
C26_Step ==
    /\ \A i \in Places :
          IsAvailable(wrappers[i]) => wrappers'[i] \in {wrappers[i], None}
    /\ wrapper_op' # "make_available_block" => HeldAvailableBlocks' \subseteq HeldAvailableBlocks

Consumed(i) == wrappers[i] # None /\ wrappers'[i] = None

(* C23: every into_available_block call on a wrapper returns: it yields   *)
(* nothing for an AvailabilityPending wrapper and the AvailableBlock it     *)
(* wraps, as it is, for an Available one; no call panics.                  *)
C23_IntoAvailableBlockTotal ==
    [][\A i \in Places :
          Consumed(i) =>
              /\ wrapper_op' # "IntoAvailableBlock_panic"
              /\ IsPending(wrappers[i]) => available_blocks' = available_blocks
              /\ IsAvailable(wrappers[i]) =>
                    available_blocks' = available_blocks \cup {Unwrap(wrappers[i]).block}]_vars

(* The variant the selection rule gives the block; None while the blobs of *)
(* a block that needs them have not all arrived.  Every block here is      *)
(* within the retention boundary, so none is NotRequired.                  *)
RuleVariant(block, blobs_arrived) ==
    IF block.fork # "Eip4844" THEN Some("PreEip4844")
    ELSE IF block.kzg_commitments = 0 THEN Some("EmptyBlobs")
    ELSE IF blobs_arrived THEN Some("Available")
    ELSE None

(* C24: the promotion of a wrapper by IntoAvailableBlock yields, for a     *)
(* block of a fork before the blobs, an AvailableBlock of that block with  *)
(* the variant PreEip4844, and for a later block without commitments one   *)
(* with EmptyBlobs; whatever it yields has the variant of the rule.        *)
C24_VariantByPriorityRule ==
    [][\A i \in Places :
          (Consumed(i) /\ wrapper_op' # "into_available_block") =>
              LET block == as_block(Unwrap(wrappers[i])) IN
              /\ \A a \in available_blocks' \ available_blocks :
                    /\ a.block = block
                    /\ Some(a.blobs.variant) \in
                          {RuleVariant(block, TRUE), RuleVariant(block, FALSE)}
              /\ RuleVariant(block, FALSE) # None =>
                    \E a \in available_blocks' :
                        /\ a.block = block
                        /\ Some(a.blobs.variant) = RuleVariant(block, FALSE)]_vars

(* C29: in every stored attestation the aggregation bitfield is as long as *)
(* the committee of the attestation's data, from the first free            *)
(* attestation on.                                                         *)
C29_BitfieldLengthIsCommitteeSize ==
    \A key \in DOMAIN store :
        Len(store[key].aggregation_bitfield) = Len(CommitteeFor(store[key].data))

(* C30: the signable message of the data is the aggregation key.  Every    *)
(* entry is stored under the signable message of its data, so no two       *)
(* entries hold the same data; every signature folded into an entry is one *)
(* over the data of the entry; and a free attestation that passes the      *)
(* checks ends in the entry of its data and leaves every other entry as it *)
(* was.                                                                    *)
C30_KeyedBySignableMessage ==
    /\ \A key \in DOMAIN store :
          /\ key = signable_message(store[key].data, PHASE_0_CUSTODY_BIT)
          /\ \A sig \in BagToSet(store[key].aggregate_signature) :
                sig.message = signable_message(store[key].data, PHASE_0_CUSTODY_BIT)
    /\ \A k1, k2 \in DOMAIN store :
          store[k1].data = store[k2].data => k1 = k2
    /\ \A fa \in FreeAttestations :
          PassesChecks(fa) =>
              LET r == process_free_attestation(store, BuiltState, fa)
                  key == signable_message(fa.data, PHASE_0_CUSTODY_BIT)
              IN
              /\ key \in DOMAIN r.store
              /\ r.store[key].data = fa.data
              /\ CopiesIn(fa.signature, r.store[key].aggregate_signature) = 1
              /\ \A k \in DOMAIN r.store \ {key} :
                    k \in DOMAIN store /\ r.store[k] = store[k]

C30_Witness ==
    \E k1, k2 \in DOMAIN store :
        /\ store[k1].data # store[k2].data
        /\ store[k1].data.slot = store[k2].data.slot
        /\ BagCardinality(store[k1].aggregate_signature) = 2
        /\ BagCardinality(store[k2].aggregate_signature) = 2

(***************************************************************************)
(* Properties of the KZG adapter.                                          *)
(***************************************************************************)
(* The inputs of a call that the library cannot work on. *)
MalformedKzgInput(c) ==
    IF c.function = "validate_blobs"
    THEN \/ Len(c.args[1]) # Len(c.args[2])
         \/ Len(c.args[2]) # Len(c.args[3])
         \/ (\E k \in DOMAIN c.args[2] : c.args[2][k] = "malformed")
         \/ (\E j \in DOMAIN c.args[3] : c.args[3][j] = "malformed")
    ELSE IF c.function = "validate_blob"
    THEN c.args[1] = "malformed" \/ c.args[3] = "malformed"
    ELSE IF c.function = "verify_kzg_proof"
    THEN c.args[2] = "malformed"
    ELSE c.args[1] = "malformed"

C32_CustodyBitAlwaysFalse ==
    /\ PHASE_0_CUSTODY_BIT = FALSE
    /\ \A key \in DOMAIN store :
          /\ key = signable_message(store[key].data, FALSE)
          /\ store[key].custody_bitfield = Bitfield_new
          /\ \A sig \in BagToSet(store[key].aggregate_signature) :
                sig.message = signable_message(store[key].data, FALSE)
    /\ \A fa \in FreeAttestations :
          PassesChecks(fa) =>
              LET custody == [fa EXCEPT !.signature =
                                 Sign(validator_registry[fa.validator_index].pubkey,
                                      signable_message(fa.data, TRUE))]
                  r == process_free_attestation(store, BuiltState, custody)
              IN
              /\ r.result = OutcomeInvalid("BadSignature")
              /\ r.store = store
              /\ process_free_attestation(store, BuiltState, fa)
                     .store[KeyOf(fa.data)].custody_bitfield = Bitfield_new

C32_Witness ==
    /\ last = Some(OutcomeOk("Aggregated"))
    /\ \E key \in DOMAIN store :
          /\ Cardinality(SetBits(store[key])) = 3
          /\ store[key].custody_bitfield = Bitfield_new

(* C33: a call changes at most the entry under the signable message of the *)
(* submitted data, and that one only with the outcome                      *)
(* NewAttestationCreated or Aggregated; with an invalid outcome,           *)
(* AggregationNotRequired, an error or a panic the store is as before.     *)
C33_AtMostOneEntryChanged ==
    \A c \in ProcessCalls :
        LET r == process_free_attestation(store, c[1], c[2])
            key == signable_message(c[2].data, PHASE_0_CUSTODY_BIT)
        IN
        /\ \A k \in (DOMAIN store \cup DOMAIN r.store) \ {key} :
              /\ k \in DOMAIN store
              /\ k \in DOMAIN r.store
              /\ r.store[k] = store[k]
        /\ DOMAIN store \subseteq DOMAIN r.store
        /\ r.store # store =>
              r.result \in {OutcomeOk("NewAttestationCreated"), OutcomeOk("Aggregated")}
        /\ r.result \in {OutcomeOk("NewAttestationCreated"), OutcomeOk("Aggregated")} =>
              /\ key \in DOMAIN r.store
              /\ r.store # store

C33_Witness ==
    /\ Cardinality(DOMAIN store) = 2
    /\ last = Some(OutcomeOk("AggregationNotRequired"))
    /\ \E c \in ProcessCalls :
          process_free_attestation(store, c[1], c[2]).result = Err("InsufficientValidators")

(* C34: the checks are applied in the order duty resolution, slot, shard,  *)
(* validator registry, signature, and the first that fails names the       *)
(* outcome: a wrong slot with an invalid signature is BadSlot, and         *)
(* BadSignature is given only when slot and shard match the duty.          *)
SignatureHolds(fa) ==
    verify(fa.signature, signable_message(fa.data, PHASE_0_CUSTODY_BIT),
           validator_registry[fa.validator_index].pubkey)

C34_FirstFailureReported ==
    \A c \in ProcessCalls :
        LET r == process_free_attestation(store, c[1], c[2]).result
            fa == c[2]
            resolved == Resolved(c)
        IN
        IF resolved.kind = "Err"
        THEN r = CASE resolved = Err("EpochCacheUninitialized") -> Panic
                   [] resolved = Err("EpochOutOfBounds") -> OutcomeInvalid("TooOld")
                   [] resolved = Err("ShardOutOfBounds") -> OutcomeInvalid("BadShard")
                   [] OTHER -> resolved
        ELSE IF resolved.value = None THEN r = OutcomeInvalid("BadValidatorIndex")
        ELSE LET duty == Unwrap(resolved.value) IN
             IF fa.data.slot # duty.slot THEN r = OutcomeInvalid("BadSlot")
             ELSE IF fa.data.shard # duty.shard THEN r = OutcomeInvalid("BadShard")
             ELSE IF fa.validator_index \notin DOMAIN validator_registry
                  THEN r = OutcomeInvalid("BadValidatorIndex")
             ELSE (r = OutcomeInvalid("BadSignature")) <=> ~SignatureHolds(fa)

C34_Witness ==
    /\ last = Some(OutcomeInvalid("BadSlot"))
    /\ \E fa \in FreeAttestations :
          /\ HasDuty(fa.validator_index)
          /\ fa.data.slot # DutyOf(fa.validator_index).slot
          /\ fa.data.shard # DutyOf(fa.validator_index).shard
          /\ ~SignatureHolds(fa)
          /\ Some(process_free_attestation(store, BuiltState, fa).result) = last
    /\ Cardinality(DOMAIN store) = 1

(***************************************************************************)
(* Properties of the locks of the blob gossip validator.                   *)
(***************************************************************************)
LockTimeout == Some(Err("ValidatorPubkeyCacheLockTimeout"))

UnknownValidator == Some(Err("UnknownValidator"))

(* C35: the step that reads the validator-pubkey cache ends the call with  *)
(* ValidatorPubkeyCacheLockTimeout when the read lock is not had within    *)
(* the timeout, whatever the signature is, and with UnknownValidator when  *)
(* the lock is had and the cache has no key for the proposer; in both      *)
(* cases the availability cache is as it was and the call has put nothing  *)
(* into it.                                                                *)
C35_Step(t) ==
    (call[t].pc = "signature" /\ call'[t].pc # "signature") =>
        /\ IF pubkey_cache_writer
           THEN call'[t].result = LockTimeout
           ELSE IF pubkey_cache_get(Unwrap(call[t].proposer).index) = None
           THEN call'[t].result = UnknownValidator
           ELSE call'[t].result \notin {LockTimeout, UnknownValidator}
        /\ call'[t].result \in {LockTimeout, UnknownValidator} =>
              /\ data_availability_checker' = data_availability_checker
              /\ put_log' = put_log

C35_State ==
    \A t \in Tasks :
        call[t].result \in {LockTimeout, UnknownValidator} =>
            /\ call[t].pc = "done"
            /\ put_log[t] = <<>>
            /\ \A k \in DOMAIN call[t].checked : call[t].checked[k] # "cache"

C35_PubkeyCacheLockTimeout ==
    []C35_State /\ [][\A t \in Tasks : C35_Step(t)]_vars

C35_Witness ==
    \E t \in Tasks :
        /\ call[t].result = LockTimeout
        /\ Sidecar(t).signature # Sidecar(t).proposer_index
        /\ Unwrap(data_availability_checker)[Sidecar(t).block_root] # {}

(* C36: a call holds at most one lock at any moment.                       *)
C36_AtMostOneLockHeld ==
    \A t \in Tasks : Cardinality(call[t].locks) <= 1

(* C37: blobs() answers a blob list exactly for the variant Available, and *)
(* nothing for EmptyBlobs, NotRequired and PreEip4844; deconstruct answers *)
(* the block of the AvailableBlock and what blobs() answers.               *)
C37_BlobsIffAvailable ==
    \A a \in available_blocks
             \cup {[block |-> block, blobs |-> blobs] :
                      block \in SignedBeaconBlocks,
                      blobs \in UNION {AnyVerifiedBlobs(b) : b \in SignedBeaconBlocks}} :
        /\ AvailableBlock_blobs(a) # None <=> a.blobs.variant = "Available"
        /\ a.blobs.variant = "Available" =>
              AvailableBlock_blobs(a) = Some(a.blobs.blobs)
        /\ a.blobs.variant \in {"EmptyBlobs", "NotRequired", "PreEip4844"} =>
              AvailableBlock_blobs(a) = None
        /\ AvailableBlock_deconstruct(a) = <<a.block, AvailableBlock_blobs(a)>>

C37_Witness ==
    \E a, b \in available_blocks :
        /\ a.blobs.variant = "Available"
        /\ AvailableBlock_blobs(a) = Some(a.blobs.blobs)
        /\ Len(a.blobs.blobs) > 0
        /\ b.blobs.variant = "PreEip4844"
        /\ AvailableBlock_blobs(b) = None
        /\ AvailableBlock_deconstruct(b) = <<b.block, None>>

(***************************************************************************)
(* Properties of the engine State notifier.                                *)
(***************************************************************************)
C38_State ==
    /\ engine.updates = 0 =>
          engine.state = "Offline" /\ engine.notifier.value = FALSE
    /\ engine.notifier.value = is_synced(engine.state)
    /\ \A i \in DOMAIN engine.watchers :
          (/\ engine.watchers[i].observed # <<>>
           /\ engine.watchers[i].subscribed_at = engine.updates) =>
              engine.watchers[i].observed[1] = is_synced(engine.state)

C38_Step ==
    /\ engine'.notifier.version # engine.notifier.version <=>
          engine'.notifier.value # engine.notifier.value
    /\ engine'.updates # engine.updates =>
          engine'.notified = (engine'.notifier.value # engine.notifier.value)
    /\ \A i \in DOMAIN engine.watchers :
          engine'.watchers[i].observed # engine.watchers[i].observed =>
              /\ engine'.watchers[i].observed =
                    Append(engine.watchers[i].observed, is_synced(engine.state))
              /\ \/ engine.watchers[i].observed = <<>>
                 \/ engine.watchers[i].seen < engine.notifier.version

(* C38: a fresh State is Offline and its channel holds false; after any    *)
(* updates the channel holds is_synced() of the state; a watcher           *)
(* subscribed after the last update first observes is_synced() of the      *)
(* state, true after update(Synced); and the version of the channel moves, *)
(* which is what wakes the watchers, exactly with the updates that change  *)
(* the value.                                                              *)
C38_NotifierTracksState == []C38_State /\ [][C38_Step]_vars

C38_Witness ==
    /\ engine.state = "Synced"
    /\ engine.updates > 0
    /\ \E i \in DOMAIN engine.watchers :
          /\ engine.watchers[i].subscribed_at = engine.updates
          /\ engine.watchers[i].observed = <<TRUE>>

====
